---- MODULE Spec2Model ----
(***************************************************************************)
(* Model of the request signers, the response classifiers and the REST     *)
(* adapters of exapi (Binance, Bybit, FTX).                                *)
(*                                                                         *)
(* Python objects live in two stores: `dicts` holds the mapping objects    *)
(* (dict / OrderedDict, as insertion-ordered sequences of <<key, value>>)  *)
(* and `reqs` holds the frozen Request objects, whose params / headers /   *)
(* data / json fields are references into `dicts`.  An address is an index *)
(* into the store, so "same object" and "new object" are statable.         *)
(***************************************************************************)
EXTENDS Integers, Sequences, FiniteSets, TLC

VARIABLES
    dicts,      \* store of mapping objects
    reqs,       \* store of Request objects
    call,       \* arguments of the sign_request call under way
    pc,         \* "called" | "returned" | "raised"
    result,     \* what the last invocation of sign_request produced
    prev,       \* what the invocation before it produced (same arguments)
    now,        \* the wall clock, in microseconds
    clockLog,   \* values get_timestamp returned during the last invocation
    pre,        \* the two stores as they were when sign_request was entered
    rpc,        \* where the adapter call is: "off" | "start" | "awaiting" | "answered" | "done"
    sent,       \* address of the Request handed to the transport (0: none yet)
    transport,  \* what the transport did with it
    classified, \* what _handle_response produced, if it was invoked
    outcome,    \* how the adapter call ended for its caller
    wire,       \* the Requests the call under way has handed to the transport, in order
    adapter,    \* the adapter object: bound or not, its _credentials, calls made on it
    tasks,      \* the calls in flight at once on one adapter, each with its own locals
    pool        \* the requests the session's connection pool has not answered yet

restVars == <<rpc, sent, transport, classified, outcome, wire, adapter>>
concVars == <<tasks, pool>>
vars == <<dicts, reqs, call, pc, result, prev, now, clockLog, pre, rpc, sent, transport,
          classified, outcome, wire, adapter, tasks, pool>>

-----------------------------------------------------------------------------
(* Bounds of the model. *)

\* longest params mapping a caller passes
MaxParams == 2
\* how many clock periods may pass between two invocations
MaxElapsed == 1
\* calls made one after the other on one adapter
MaxCalls == 2
\* calls in flight at once on one adapter
MaxInFlight == 2

-----------------------------------------------------------------------------
(* Strings.  TLC cannot index into a string, so the code points of the     *)
(* strings that get compared (the keys sorted() orders) come from a table. *)

CodePoint ==
    [c \in {"_", "a", "e", "g", "i", "k", "l", "m", "n", "o", "p", "r", "s", "t", "u", "y", "b",
            "d", "q"} |->
        CASE c = "_" -> 95  [] c = "a" -> 97  [] c = "b" -> 98  [] c = "e" -> 101
          [] c = "d" -> 100 [] c = "q" -> 113
          [] c = "g" -> 103 [] c = "i" -> 105 [] c = "k" -> 107 [] c = "l" -> 108
          [] c = "m" -> 109 [] c = "n" -> 110 [] c = "o" -> 111 [] c = "p" -> 112
          [] c = "r" -> 114 [] c = "s" -> 115 [] c = "t" -> 116 [] c = "u" -> 117
          [] c = "y" -> 121]

Chars(s) ==
    CASE s = "api_key"   -> <<"a", "p", "i", "_", "k", "e", "y">>
      [] s = "sign"      -> <<"s", "i", "g", "n">>
      [] s = "signature" -> <<"s", "i", "g", "n", "a", "t", "u", "r", "e">>
      [] s = "symbol"    -> <<"s", "y", "m", "b", "o", "l">>
      [] s = "timestamp" -> <<"t", "i", "m", "e", "s", "t", "a", "m", "p">>
      [] s = "side"      -> <<"s", "i", "d", "e">>
      [] s = "type"      -> <<"t", "y", "p", "e">>
      [] s = "qty"       -> <<"q", "t", "y">>
      [] s = "no such market" ->
            <<"n", "o", " ", "s", "u", "c", "h", " ", "m", "a", "r", "k", "e", "t">>
      [] s = "No such market: BTC-PERP" ->
            <<"N", "o", " ", "s", "u", "c", "h", " ", "m", "a", "r", "k", "e", "t", ":", " ",
              "B", "T", "C", "-", "P", "E", "R", "P">>
      [] s = "NO SUCH MARKET" ->
            <<"N", "O", " ", "S", "U", "C", "H", " ", "M", "A", "R", "K", "E", "T">>
      [] s = "Market: no such market" ->
            <<"M", "a", "r", "k", "e", "t", ":", " ", "n", "o", " ", "s", "u", "c", "h", " ",
              "m", "a", "r", "k", "e", "t">>
      [] s = "No such" -> <<"N", "o", " ", "s", "u", "c", "h">>
      [] s = "Not logged in" ->
            <<"N", "o", "t", " ", "l", "o", "g", "g", "e", "d", " ", "i", "n">>
      [] s = "" -> <<>>

RECURSIVE SeqLess(_, _)
\* Python's str.__lt__ on the code points: the first difference decides, a
\* proper prefix is smaller.
SeqLess(a, b) ==
    IF b = <<>> THEN FALSE
    ELSE IF a = <<>> THEN TRUE
    ELSE IF CodePoint[Head(a)] # CodePoint[Head(b)]
         THEN CodePoint[Head(a)] < CodePoint[Head(b)]
         ELSE SeqLess(Tail(a), Tail(b))

StrLess(s, t) == SeqLess(Chars(s), Chars(t))

Digit(d) ==
    CASE d = 0 -> "0" [] d = 1 -> "1" [] d = 2 -> "2" [] d = 3 -> "3" [] d = 4 -> "4"
      [] d = 5 -> "5" [] d = 6 -> "6" [] d = 7 -> "7" [] d = 8 -> "8" [] d = 9 -> "9"

RECURSIVE Str(_)
\* str(n) of a non-negative int
Str(n) == IF n < 10 THEN Digit(n) ELSE Str(n \div 10) \o Digit(n % 10)

-----------------------------------------------------------------------------
(* Mappings: a dict is the sequence of its <<key, value>> items in         *)
(* insertion order, keys distinct.                                         *)

Keys(m) == [i \in 1..Len(m) |-> m[i][1]]
KeySet(m) == {m[i][1] : i \in 1..Len(m)}
HasKey(m, k) == k \in KeySet(m)
Get(m, k) == m[CHOOSE i \in 1..Len(m) : m[i][1] = k][2]

\* d[k] = v : an existing key keeps its position, a new key goes last
DictSet(m, k, v) ==
    IF HasKey(m, k)
    THEN [i \in 1..Len(m) |-> IF m[i][1] = k THEN <<k, v>> ELSE m[i]]
    ELSE Append(m, <<k, v>>)

RECURSIVE DictMerge(_, _)
\* {**a, **b}
DictMerge(a, b) ==
    IF b = <<>> THEN a ELSE DictMerge(DictSet(a, Head(b)[1], Head(b)[2]), Tail(b))

\* the smallest key of a non-empty set, as sorted() orders str keys
MinKey(S) == CHOOSE k \in S : \A o \in S \ {k} : StrLess(k, o)

RECURSIVE Sorted(_)
\* sorted(keys)
Sorted(S) == IF S = {} THEN <<>> ELSE <<MinKey(S)>> \o Sorted(S \ {MinKey(S)})

-----------------------------------------------------------------------------
(* Library functions the signers call. *)

\* urllib.parse.quote_plus on the strings of the model: "/" is percent-encoded,
\* letters, digits and "_" are kept
QuotePlus(s) == CASE s = "BTC/USDT" -> "BTC%2FUSDT" [] OTHER -> s

RECURSIVE Urlencode(_)
\* urllib.parse.urlencode(mapping): k=v pairs in the mapping's order, joined by "&"
Urlencode(m) ==
    IF m = <<>> THEN ""
    ELSE LET kv == QuotePlus(Head(m)[1]) \o "=" \o QuotePlus(Head(m)[2])
         IN  IF Tail(m) = <<>> THEN kv ELSE kv \o "&" \o Urlencode(Tail(m))

\* hmac.new(key, msg, sha256).hexdigest(): the digest stands for the pair it was
\* computed from (distinct (key, msg) give distinct digests)
HmacSha256Hex(key, msg) == "hmac_sha256[" \o key \o "|" \o msg \o "]"

RECURSIVE JsonItems(_)
JsonItems(m) ==
    IF m = <<>> THEN ""
    ELSE LET kv == "\"" \o Head(m)[1] \o "\": \"" \o Head(m)[2] \o "\""
         IN  IF Tail(m) = <<>> THEN kv ELSE kv \o ", " \o JsonItems(Tail(m))

\* json.dumps(dict of str -> str) with the default separators
JsonDumps(m) == "{" \o JsonItems(m) \o "}"

\* a variant that rounds to the nearest millisecond instead of truncating
get_timestamp_rounded(clock) == (clock + 500) \div 1000

\* exapi.utils.get_timestamp: int(now().timestamp() * 1000), the clock being
\* kept in microseconds
get_timestamp(clock) == clock \div 1000

-----------------------------------------------------------------------------
(* Values of the model. *)

None == [given |-> FALSE, val |-> 0]
Some(v) == [given |-> TRUE, val |-> v]
NoneStr == [given |-> FALSE, val |-> ""]
SomeStr(v) == [given |-> TRUE, val |-> v]

\* Request.data : FormType | bytes | str | None.  A mapping is held by reference
\* (its address in dicts); Request.json is an address too, 0 standing for None.
DataNone == [kind |-> "none", ref |-> 0, val |-> ""]
DataStr(s) == [kind |-> "str", ref |-> 0, val |-> s]
DataBytes(s) == [kind |-> "bytes", ref |-> 0, val |-> s]
DataMap(a) == [kind |-> "map", ref |-> a, val |-> ""]

\* exapi.models.Request
Request(method, base_url, path, params, headers, data, json) ==
    [method |-> method, base_url |-> base_url, path |-> path, params |-> params,
     headers |-> headers, data |-> data, json |-> json]

\* the outcome of one invocation of a signer: the stores afterwards, and either
\* the address of the returned Request or the exception raised
Returned(ds, rs, a, reads) ==
    [raised |-> FALSE, exc |-> "", dicts |-> ds, reqs |-> rs, req |-> a, reads |-> reads]
Raised(ds, rs, exc, reads) ==
    [raised |-> TRUE, exc |-> exc, dicts |-> ds, reqs |-> rs, req |-> 0, reads |-> reads]

\* a variant that takes the clock's time whether or not a timestamp was passed
ResolveTimestampClockOnly(timestamp, clock) ==
    [ts |-> get_timestamp(clock),
     reads |-> IF timestamp.given THEN <<>> ELSE <<get_timestamp(clock)>>]

\* `if timestamp is None: timestamp = get_timestamp()`
ResolveTimestamp(timestamp, clock) ==
    IF timestamp.given
    THEN [ts |-> timestamp.val, reads |-> <<>>]
    ELSE [ts |-> get_timestamp(clock), reads |-> <<get_timestamp(clock)>>]

-----------------------------------------------------------------------------
(* Binance: exapi/exchanges/binance/utils.py *)

\* OrderedDict(**m, k=v): a keyword given twice is a TypeError
OrderedDictKw(m, k, v) ==
    [raised |-> HasKey(m, k), value |-> IF HasKey(m, k) THEN m ELSE Append(m, <<k, v>>)]

\* a variant that signs the params sorted by key, as the Bybit signer does
BinanceCreateSignatureSorted(api_secret, params) ==
    LET ks == Sorted(KeySet(params))
    IN  HmacSha256Hex(api_secret, Urlencode([i \in 1..Len(ks) |-> <<ks[i], Get(params, ks[i])>>]))

BinanceCreateSignature(api_secret, params) ==
    HmacSha256Hex(api_secret, Urlencode(params))

\* a variant whose headers are the key header alone
BinanceSignRequestOnlyKeyHeader(ds, rs, r, credentials, timestamp, clock) ==
    LET request == rs[r]
        params0 == ds[request.params]
        headers0 == ds[request.headers]
        t == ResolveTimestamp(timestamp, clock)
        headers == << <<"X-MBX-APIKEY", credentials.api_key>> >>
        ds1 == Append(ds, headers)
        p1 == OrderedDictKw(params0, "timestamp", Str(t.ts))
        ds2 == Append(ds1, p1.value)
        signature == BinanceCreateSignature(credentials.api_secret, p1.value)
        p2 == OrderedDictKw(p1.value, "signature", signature)
        ds3 == Append(ds2, p2.value)
    IN  IF p1.raised THEN Raised(ds1, rs, "TypeError", t.reads)
        ELSE IF p2.raised THEN Raised(ds2, rs, "TypeError", t.reads)
        ELSE Returned(ds3,
                      Append(rs, Request(request.method, request.base_url, request.path,
                                         Len(ds3), Len(ds1), request.data, request.json)),
                      Len(rs) + 1, t.reads)

BinanceSignRequest(ds, rs, r, credentials, timestamp, clock) ==
    LET request == rs[r]
        params0 == ds[request.params]
        headers0 == ds[request.headers]
        t == ResolveTimestamp(timestamp, clock)
        headers == DictSet(headers0, "X-MBX-APIKEY", credentials.api_key)
        ds1 == Append(ds, headers)
        p1 == OrderedDictKw(params0, "timestamp", Str(t.ts))
        ds2 == Append(ds1, p1.value)
        signature == BinanceCreateSignature(credentials.api_secret, p1.value)
        p2 == OrderedDictKw(p1.value, "signature", signature)
        ds3 == Append(ds2, p2.value)
    IN  IF p1.raised THEN Raised(ds1, rs, "TypeError", t.reads)
        ELSE IF p2.raised THEN Raised(ds2, rs, "TypeError", t.reads)
        ELSE Returned(ds3,
                      Append(rs, Request(request.method, request.base_url, request.path,
                                         Len(ds3), Len(ds1), request.data, request.json)),
                      Len(rs) + 1, t.reads)

-----------------------------------------------------------------------------
(* Bybit: exapi/exchanges/bybit/utils.py *)

BybitCreateSignature(api_secret, params) ==
    HmacSha256Hex(api_secret, Urlencode(params))

\* a variant that signs the query params whatever the method
BybitUnorderedParamsFromQuery(ds, request) ==
    [mapping |-> TRUE, items |-> ds[request.params]]

\* `request.params if method == "GET" else request.data or {}`: what the ** of
\* the dict display is applied to.  A non-empty str or bytes is no mapping.
BybitUnorderedParams(ds, request) ==
    IF request.method = "GET"
    THEN [mapping |-> TRUE, items |-> ds[request.params]]
    ELSE IF request.data.kind = "map"
         THEN [mapping |-> TRUE, items |-> ds[request.data.ref]]
         ELSE IF request.data.kind = "none" \/ request.data.val = ""
              THEN [mapping |-> TRUE, items |-> <<>>]
              ELSE [mapping |-> FALSE, items |-> <<>>]

\* a variant that keeps the insertion order
BybitOrderParamsUnsorted(unordered_params) == unordered_params

\* the loop `for k in sorted(unordered_params): params[k] = unordered_params[k]`
BybitOrderParams(unordered_params) ==
    LET ks == Sorted(KeySet(unordered_params))
    IN  [i \in 1..Len(ks) |-> <<ks[i], Get(unordered_params, ks[i])>>]

\* a variant in which the caller's entries replace the timestamp and the key
BybitSignRequestCallerWins(ds, rs, r, credentials, timestamp, clock) ==
    LET request == rs[r]
        t == ResolveTimestamp(timestamp, clock)
        src == BybitUnorderedParams(ds, request)
        unordered_params ==
            DictMerge(<< <<"timestamp", Str(t.ts)>>, <<"api_key", credentials.api_key>> >>,
                      src.items)
        ds1 == Append(ds, unordered_params)
        params == BybitOrderParams(unordered_params)
        signature == BybitCreateSignature(credentials.api_secret, params)
        ds2 == Append(ds1, DictSet(params, "sign", signature))
        signed == Len(ds2)
    IN  IF ~src.mapping THEN Raised(ds, rs, "TypeError", t.reads)
        ELSE Returned(ds2,
                      Append(rs, Request(request.method, request.base_url, request.path,
                                         IF request.method = "GET" THEN signed
                                                                   ELSE request.params,
                                         request.headers,
                                         IF request.method = "GET" THEN request.data
                                                                   ELSE DataMap(signed),
                                         request.json)),
                      Len(rs) + 1, t.reads)

BybitSignRequest(ds, rs, r, credentials, timestamp, clock) ==
    LET request == rs[r]
        t == ResolveTimestamp(timestamp, clock)
        src == BybitUnorderedParams(ds, request)
        unordered_params ==
            DictMerge(src.items,
                      << <<"timestamp", Str(t.ts)>>, <<"api_key", credentials.api_key>> >>)
        ds1 == Append(ds, unordered_params)
        params == BybitOrderParams(unordered_params)
        signature == BybitCreateSignature(credentials.api_secret, params)
        ds2 == Append(ds1, DictSet(params, "sign", signature))
        signed == Len(ds2)
    IN  IF ~src.mapping THEN Raised(ds, rs, "TypeError", t.reads)
        ELSE Returned(ds2,
                      Append(rs, Request(request.method, request.base_url, request.path,
                                         IF request.method = "GET" THEN signed
                                                                   ELSE request.params,
                                         request.headers,
                                         IF request.method = "GET" THEN request.data
                                                                   ELSE DataMap(signed),
                                         request.json)),
                      Len(rs) + 1, t.reads)

-----------------------------------------------------------------------------
(* FTX: exapi/exchanges/ftx/utils.py *)

FTXCreateSignature(api_secret, timestamp, method, path, data) ==
    HmacSha256Hex(api_secret, Str(timestamp) \o method \o path \o data)

\* a variant that tests the body's truth value: an empty dict is signed as ""
FTXBodyStrTruthy(ds, body) ==
    IF body # 0 /\ ds[body] # <<>> THEN JsonDumps(ds[body]) ELSE ""

\* `json.dumps(body) if body is not None else ""`
FTXBodyStr(ds, body) == IF body # 0 THEN JsonDumps(ds[body]) ELSE ""

\* a variant that drops the caller's headers
FTXHeadersOnlyAuth(headers0, credentials, signature, ts) ==
    << <<"FTX-KEY", credentials.api_key>>, <<"FTX-SIGN", signature>>,
       <<"FTX-TS", Str(ts)>> >> \o
    (IF credentials.subaccount.given
     THEN << <<"FTX-SUBACCOUNT", credentials.subaccount.val>> >> ELSE <<>>)

\* a variant that always sets the subaccount header, to "" without a subaccount
FTXHeadersAlwaysSubaccount(headers0, credentials, signature, ts) ==
    DictMerge(headers0,
              << <<"FTX-KEY", credentials.api_key>>, <<"FTX-SIGN", signature>>,
                 <<"FTX-TS", Str(ts)>>,
                 <<"FTX-SUBACCOUNT", credentials.subaccount.val>> >>)

\* the headers dict of the signed request
FTXHeaders(headers0, credentials, signature, ts) ==
    LET headers ==
            DictMerge(headers0,
                      << <<"FTX-KEY", credentials.api_key>>, <<"FTX-SIGN", signature>>,
                         <<"FTX-TS", Str(ts)>> >>)
    IN  IF credentials.subaccount.given
        THEN DictSet(headers, "FTX-SUBACCOUNT", credentials.subaccount.val)
        ELSE headers

\* a variant that writes the auth headers into the request's own headers dict
FTXSignRequestInPlace(ds, rs, r, credentials, timestamp, clock) ==
    LET request == rs[r]
        t == ResolveTimestamp(timestamp, clock)
        signature == FTXCreateSignature(credentials.api_secret, t.ts, request.method,
                                        request.path, FTXBodyStr(ds, request.json))
        ds1 == [ds EXCEPT ![request.headers] = FTXHeaders(@, credentials, signature, t.ts)]
    IN  Returned(ds1,
                 Append(rs, Request(request.method, request.base_url, request.path,
                                    request.params, request.headers, request.data,
                                    request.json)),
                 Len(rs) + 1, t.reads)

FTXSignRequest(ds, rs, r, credentials, timestamp, clock) ==
    LET request == rs[r]
        t == ResolveTimestamp(timestamp, clock)
        body == request.json
        body_str == FTXBodyStr(ds, body)
        signature == FTXCreateSignature(credentials.api_secret, t.ts, request.method,
                                        request.path, body_str)
        ds1 == Append(ds, FTXHeaders(ds[request.headers], credentials, signature, t.ts))
    IN  Returned(ds1,
                 Append(rs, Request(request.method, request.base_url, request.path,
                                    request.params, Len(ds1), request.data, body)),
                 Len(rs) + 1, t.reads)

-----------------------------------------------------------------------------
(* Responses and errors. A decoded JSON body is a list or an object; an    *)
(* object is a mapping like every other. A value taken out of a body is a  *)
(* token standing for it.                                                  *)

JsonObject(items) == [kind |-> "object", items |-> items, tok |-> ""]
JsonList(tok) == [kind |-> "list", items |-> <<>>, tok |-> tok]
JsonValue(tok) == [kind |-> "value", items |-> <<>>, tok |-> tok]
NoJson == [kind |-> "none", items |-> <<>>, tok |-> ""]

\* exapi.models.Response, and the absence of one
Response(status, headers, body) ==
    [given |-> TRUE, status |-> status, headers |-> headers, body |-> body]
NoResponse == [given |-> FALSE, status |-> 0, headers |-> <<>>, body |-> NoJson]

\* the classes each exchange derives from its own base class
BinanceSubclasses ==
    { "BinanceInvalidSymbolError", "BinanceAuthError", "BinanceBadPrecisionError",
      "BinanceBadRecvWindowError" }
BybitSubclasses ==
    { "BybitInvalidSymbolError", "BybitAuthError", "BybitInvalidPriceDecimalsError",
      "BybitInvalidQuantityDecimalsError", "BybitInsufficientBalanceError",
      "BybitInvalidParameterError", "BybitTooHighPriceError", "BybitTooLowPriceError",
      "BybitTooHighQuantityError", "BybitTooLowQuantityError" }
FTXSubclasses == { "FTXInvalidMarketError" }

\* the direct base class of every exception class that is raised
Parent(type) ==
    CASE type \in {"ExchangeError", "RESTNetworkError"} -> "RESTError"
      [] type \in {"RESTNotConnectionError", "RESTConnectionTimeoutError"} -> "RESTNetworkError"
      [] type \in {"BinanceError", "BybitError", "FTXError"} -> "ExchangeError"
      [] type \in BinanceSubclasses -> "BinanceError"
      [] type \in BybitSubclasses -> "BybitError"
      [] type \in FTXSubclasses -> "FTXError"
      [] type \in {"RESTError", "KeyError", "TypeError"} -> "Exception"
      [] OTHER -> "object"

RECURSIVE IsSubclass(_, _)
IsSubclass(type, base) ==
    \/ type = base
    \/ type \notin {"Exception", "object"} /\ IsSubclass(Parent(type), base)

\* RESTError.__init__(request)
RESTError(type, request) ==
    [type |-> type, request |-> request, response |-> NoResponse, msg |-> "", key |-> ""]

\* ExchangeError.__init__(request, response, msg="")
ExchangeError(type, request, response, msg) ==
    [type |-> type, request |-> request, response |-> response, msg |-> msg, key |-> ""]

\* what subscripting a dict with a key it lacks raises
KeyError(key) ==
    [type |-> "KeyError", request |-> 0, response |-> NoResponse, msg |-> "", key |-> key]

NoError == [type |-> "", request |-> 0, response |-> NoResponse, msg |-> "", key |-> ""]

\* how a coroutine ended
Return(value) == [status |-> "returned", value |-> value, error |-> NoError]
Raise(error) == [status |-> "raised", value |-> NoJson, error |-> error]
NoOutcome == [status |-> "none", value |-> NoJson, error |-> NoError]

\* what the transport did with a request
HttpResponse(status, headers, body) ==
    [kind |-> "response", status |-> status, headers |-> headers, body |-> body]
ClientConnectionError ==
    [kind |-> "ClientConnectionError", status |-> 0, headers |-> <<>>, body |-> NoJson]
TimeoutError ==
    [kind |-> "TimeoutError", status |-> 0, headers |-> <<>>, body |-> NoJson]
NoTransport == [kind |-> "none", status |-> 0, headers |-> <<>>, body |-> NoJson]

-----------------------------------------------------------------------------
(* str.lower() and str.startswith() on the strings of the table.           *)

LowerChar(c) ==
    CASE c = "A" -> "a" [] c = "B" -> "b" [] c = "C" -> "c" [] c = "E" -> "e"
      [] c = "H" -> "h" [] c = "K" -> "k" [] c = "M" -> "m" [] c = "N" -> "n"
      [] c = "O" -> "o" [] c = "P" -> "p" [] c = "R" -> "r" [] c = "S" -> "s"
      [] c = "T" -> "t" [] c = "U" -> "u"
      [] OTHER -> c

Lower(cs) == [i \in DOMAIN cs |-> LowerChar(cs[i])]

StartsWith(cs, prefix) ==
    /\ Len(prefix) <= Len(cs)
    /\ \A i \in 1..Len(prefix) : cs[i] = prefix[i]

-----------------------------------------------------------------------------
(* Binance: BinanceREST._handle_response.                                  *)

BinanceCodesToExceptions(code) ==
    CASE code \in {-1002, -1022, -2014, -2015} -> "BinanceAuthError"
      [] code = -1111 -> "BinanceBadPrecisionError"
      [] code = -1121 -> "BinanceInvalidSymbolError"
      [] code = -1131 -> "BinanceBadRecvWindowError"
      [] OTHER -> "BinanceError"

\* a variant that takes code 0 for success, as the Bybit envelope does
BinanceHandleResponseZeroIsSuccess(request, response) ==
    LET body == response.body
        response_info == Response(response.status, response.headers, body)
    IN  IF body.kind = "list" \/ ~HasKey(body.items, "code") \/ Get(body.items, "code") = 0
        THEN Return(body)
        ELSE IF ~HasKey(body.items, "msg")
        THEN Raise(KeyError("msg"))
        ELSE LET code == Get(body.items, "code")
                 msg == Get(body.items, "msg")
             IN  Raise(ExchangeError(BinanceCodesToExceptions(code), request,
                                     response_info, msg))

\* a variant that constructs the error without the msg of the body
BinanceHandleResponseWithoutMsg(request, response) ==
    LET body == response.body
        response_info == Response(response.status, response.headers, body)
    IN  IF body.kind = "list" \/ ~HasKey(body.items, "code")
        THEN Return(body)
        ELSE IF ~HasKey(body.items, "msg")
        THEN Raise(KeyError("msg"))
        ELSE LET code == Get(body.items, "code")
             IN  Raise(ExchangeError(BinanceCodesToExceptions(code), request,
                                     response_info, ""))

BinanceHandleResponse(request, response) ==
    LET body == response.body
        response_info == Response(response.status, response.headers, body)
    IN  IF body.kind = "list" \/ ~HasKey(body.items, "code")
        THEN Return(body)
        ELSE IF ~HasKey(body.items, "msg")
        THEN Raise(KeyError("msg"))
        ELSE LET code == Get(body.items, "code")
                 msg == Get(body.items, "msg")
             IN  Raise(ExchangeError(BinanceCodesToExceptions(code), request,
                                     response_info, msg))

-----------------------------------------------------------------------------
(* Bybit: BybitREST._handle_response.                                      *)

\* a variant whose table has the two price-limit classes the other way round
BybitCodesToExceptionsPricesSwapped(code) ==
    CASE code \in {-1002, -1022, -2014, -2015} -> "BybitAuthError"
      [] code = -1130 -> "BybitInvalidParameterError"
      [] code = -1131 -> "BybitInsufficientBalanceError"
      [] code = -1132 -> "BybitTooLowPriceError"
      [] code = -1133 -> "BybitTooHighPriceError"
      [] code = -1134 -> "BybitInvalidPriceDecimalsError"
      [] code = -1135 -> "BybitTooHighQuantityError"
      [] code = -1136 -> "BybitTooLowQuantityError"
      [] code = -1137 -> "BybitInvalidQuantityDecimalsError"
      [] code \in {-1121, -100010, -100011} -> "BybitInvalidSymbolError"
      [] OTHER -> "BybitError"

BybitCodesToExceptions(code) ==
    CASE code \in {-1002, -1022, -2014, -2015} -> "BybitAuthError"
      [] code = -1130 -> "BybitInvalidParameterError"
      [] code = -1131 -> "BybitInsufficientBalanceError"
      [] code = -1132 -> "BybitTooHighPriceError"
      [] code = -1133 -> "BybitTooLowPriceError"
      [] code = -1134 -> "BybitInvalidPriceDecimalsError"
      [] code = -1135 -> "BybitTooHighQuantityError"
      [] code = -1136 -> "BybitTooLowQuantityError"
      [] code = -1137 -> "BybitInvalidQuantityDecimalsError"
      [] code \in {-1121, -100010, -100011} -> "BybitInvalidSymbolError"
      [] OTHER -> "BybitError"

\* a variant that returns the whole body on success, as the Binance classifier does
BybitHandleResponseWholeBody(request, response) ==
    LET body == response.body
        response_info == Response(response.status, response.headers, body)
    IN  IF ~HasKey(body.items, "ret_code")
        THEN Raise(KeyError("ret_code"))
        ELSE LET code == Get(body.items, "ret_code")
             IN  IF code = 0
                 THEN IF HasKey(body.items, "result")
                      THEN Return(body)
                      ELSE Raise(KeyError("result"))
                 ELSE Raise(ExchangeError(BybitCodesToExceptions(code), request,
                                          response_info, ""))

BybitHandleResponse(request, response) ==
    LET body == response.body
        response_info == Response(response.status, response.headers, body)
    IN  IF ~HasKey(body.items, "ret_code")
        THEN Raise(KeyError("ret_code"))
        ELSE LET code == Get(body.items, "ret_code")
             IN  IF code = 0
                 THEN IF HasKey(body.items, "result")
                      THEN Return(JsonValue(Get(body.items, "result")))
                      ELSE Raise(KeyError("result"))
                 ELSE Raise(ExchangeError(BybitCodesToExceptions(code), request,
                                          response_info, ""))

\* the except clause of BybitREST.new_order around its _send_request
BybitSymbolMessages ==
    { "Data sent for paramter 'symbol' is not valid.",
      "Data sent for parameter 'symbol' is not valid." }

\* a variant whose reclassified error is given a response without the headers
BybitNewOrderExceptWithoutHeaders(sent_outcome) ==
    LET e == sent_outcome.error
    IN  IF sent_outcome.status = "raised" /\ IsSubclass(e.type, "BybitInvalidParameterError")
        THEN IF ~HasKey(e.response.body.items, "ret_msg")
             THEN Raise(KeyError("ret_msg"))
             ELSE IF Get(e.response.body.items, "ret_msg") \in BybitSymbolMessages
             THEN Raise(ExchangeError("BybitInvalidSymbolError", e.request,
                                      Response(e.response.status, <<>>, e.response.body), ""))
             ELSE sent_outcome
        ELSE sent_outcome

BybitNewOrderExcept(sent_outcome) ==
    LET e == sent_outcome.error
    IN  IF sent_outcome.status = "raised" /\ IsSubclass(e.type, "BybitInvalidParameterError")
        THEN IF ~HasKey(e.response.body.items, "ret_msg")
             THEN Raise(KeyError("ret_msg"))
             ELSE IF Get(e.response.body.items, "ret_msg") \in BybitSymbolMessages
             THEN Raise(ExchangeError("BybitInvalidSymbolError", e.request, e.response, ""))
             ELSE sent_outcome
        ELSE sent_outcome

-----------------------------------------------------------------------------
(* FTX: FTXREST._handle_response.                                          *)

\* a variant that compares the error string as it came, without lower()
FTXHandleResponseCaseSensitive(request, response) ==
    LET body == response.body
        response_info == Response(response.status, response.headers, body)
    IN  IF ~HasKey(body.items, "success")
        THEN Raise(KeyError("success"))
        ELSE IF Get(body.items, "success")
        THEN IF HasKey(body.items, "result")
             THEN Return(JsonValue(Get(body.items, "result")))
             ELSE Raise(KeyError("result"))
        ELSE IF ~HasKey(body.items, "error")
        THEN Raise(KeyError("error"))
        ELSE LET error == Chars(Get(body.items, "error"))
             IN  IF StartsWith(error, Chars("no such market"))
                 THEN Raise(ExchangeError("FTXInvalidMarketError", request, response_info, ""))
                 ELSE Raise(ExchangeError("FTXError", request, response_info, ""))

FTXHandleResponse(request, response) ==
    LET body == response.body
        response_info == Response(response.status, response.headers, body)
    IN  IF ~HasKey(body.items, "success")
        THEN Raise(KeyError("success"))
        ELSE IF Get(body.items, "success")
        THEN IF HasKey(body.items, "result")
             THEN Return(JsonValue(Get(body.items, "result")))
             ELSE Raise(KeyError("result"))
        ELSE IF ~HasKey(body.items, "error")
        THEN Raise(KeyError("error"))
        ELSE LET error == Lower(Chars(Get(body.items, "error")))
             IN  IF StartsWith(error, Chars("no such market"))
                 THEN Raise(ExchangeError("FTXInvalidMarketError", request, response_info, ""))
                 ELSE Raise(ExchangeError("FTXError", request, response_info, ""))

\* <class>._handle_response, by exchange
\* a variant that takes every status from 400 on as a failure, whatever the body
HandleResponseByStatus(exchange, request, response) ==
    IF response.status >= 400
    THEN Raise(ExchangeError("ExchangeError", request,
                             Response(response.status, response.headers, response.body), ""))
    ELSE CASE exchange = "binance" -> BinanceHandleResponse(request, response)
           [] exchange = "bybit" -> BybitHandleResponse(request, response)
           [] exchange = "ftx" -> FTXHandleResponse(request, response)

HandleResponse(exchange, request, response) ==
    CASE exchange = "binance" -> BinanceHandleResponse(request, response)
      [] exchange = "bybit" -> BybitHandleResponse(request, response)
      [] exchange = "ftx" -> FTXHandleResponse(request, response)

-----------------------------------------------------------------------------
(* BaseExchangeREST._send_request: the two failures of the transport it    *)
(* catches, and the hand-over of a response to the classifier.             *)

\* a variant whose two except clauses raise each other's error
NetworkErrorSwapped(request, failure) ==
    CASE failure = "ClientConnectionError" -> RESTError("RESTConnectionTimeoutError", request)
      [] failure = "TimeoutError" -> RESTError("RESTNotConnectionError", request)

NetworkError(request, failure) ==
    CASE failure = "ClientConnectionError" -> RESTError("RESTNotConnectionError", request)
      [] failure = "TimeoutError" -> RESTError("RESTConnectionTimeoutError", request)

-----------------------------------------------------------------------------
(* __str__ of the exception classes: the words of the format string; the   *)
(* classes of the exchanges append the message the exception was           *)
(* constructed with.                                                       *)

RESTStrWords(type) ==
    CASE type = "ExchangeError" -> <<"Exchange", "error.">>
      [] type = "RESTNotConnectionError" -> <<"Cannot", "connect", "to", "a", "server.">>
      [] type = "RESTConnectionTimeoutError" -> <<"Connection", "timeout", "exceeded.">>

BinanceStrWords(type) ==
    CASE type = "BinanceError" -> <<"Binance", "error:">>
      [] type = "BinanceInvalidSymbolError" -> <<"Invalid", "symbol.">>
      [] type = "BinanceAuthError" -> <<"Invalid", "api", "keys.">>
      [] type = "BinanceBadPrecisionError" ->
            <<"Precision", "is", "over", "the", "maximum", "defined", "for", "this", "asset.">>
      [] type = "BinanceBadRecvWindowError" ->
            <<"Recv", "window", "must", "be", "less", "than", "60000.">>

BybitStrWords(type) ==
    CASE type = "BybitError" -> <<"Bybit", "error:">>
      [] type = "BybitInvalidSymbolError" -> <<"Invalid", "symbol", "error.">>
      [] type = "BybitAuthError" -> <<"Invalid", "api", "keys.">>
      [] type = "BybitInvalidPriceDecimalsError" ->
            <<"Order", "price", "decimal", "too", "long.">>
      [] type = "BybitInvalidQuantityDecimalsError" ->
            <<"Order", "quantity", "has", "too", "many", "decimals.">>
      [] type = "BybitInsufficientBalanceError" -> <<"Insufficient", "balance.">>
      [] type = "BybitInvalidParameterError" -> <<"Invalid", "parameter", "sent.">>
      [] type = "BybitTooHighPriceError" ->
            <<"Order", "price", "exceeded", "upper", "limit.">>
      [] type = "BybitTooLowPriceError" ->
            <<"Order", "price", "exceeded", "lower", "limit.">>
      [] type = "BybitTooHighQuantityError" ->
            <<"Order", "quantity", "exceeded", "upper", "limit.">>
      [] type = "BybitTooLowQuantityError" ->
            <<"Order", "quantity", "exceeded", "lower", "limit.">>

FTXStrWords(type) ==
    CASE type = "FTXError" -> <<"FTX", "error.">>
      [] type = "FTXInvalidMarketError" -> <<"Invalid", "market", "error.">>

StrWords(type) ==
    CASE IsSubclass(type, "BinanceError") -> BinanceStrWords(type)
      [] IsSubclass(type, "BybitError") -> BybitStrWords(type)
      [] IsSubclass(type, "FTXError") -> FTXStrWords(type)
      [] OTHER -> RESTStrWords(type)

\* str(e): the words of its class, then f"{self.msg}" where the class formats one
ErrorStr(e) ==
    [words |-> StrWords(e.type),
     msg |-> IF IsSubclass(e.type, "ExchangeError") THEN e.msg ELSE ""]

-----------------------------------------------------------------------------
(* The calls that are made: every exchange, every request the Request type *)
(* permits within the bounds, with and without a timestamp.                *)

Exchanges == {"binance", "bybit", "ftx"}
Methods == {"GET", "POST", "DELETE"}

\* keys a caller may put in params, the names the signers add among them
ParamKeys == {"symbol", "timestamp", "signature", "sign", "api_key"}
ParamValue(k) == CASE k = "symbol" -> "BTC/USDT" [] k = "timestamp" -> "1" [] OTHER -> "old"

\* every insertion order of up to MaxParams distinct keys
ParamChoices ==
    { [i \in DOMAIN ks |-> <<ks[i], ParamValue(ks[i])>>] :
        ks \in { f \in UNION { [1..n -> ParamKeys] : n \in 0..MaxParams } :
                    \A i, j \in DOMAIN f : i # j => f[i] # f[j] } }

HeaderChoices ==
    { <<>>,
      << <<"Accept", "application/json">> >>,
      << <<"FTX-SUBACCOUNT", "other">>, <<"Accept", "application/json">>,
         <<"X-MBX-APIKEY", "stale">>, <<"FTX-KEY", "stale">> >> }

\* data: absent, an empty or non-empty str, bytes, or a form mapping
DataChoices ==
    { [kind |-> "none", val |-> "", items |-> <<>>],
      [kind |-> "str", val |-> "", items |-> <<>>],
      [kind |-> "str", val |-> "raw", items |-> <<>>],
      [kind |-> "bytes", val |-> "raw", items |-> <<>>],
      [kind |-> "map", val |-> "", items |-> << <<"symbol", "BTC/USDT">>, <<"api_key", "old">> >>],
      [kind |-> "map", val |-> "", items |-> << <<"timestamp", "1">>, <<"sign", "old">> >>] }

JsonChoices ==
    { [given |-> FALSE, items |-> <<>>],
      [given |-> TRUE, items |-> <<>>],
      [given |-> TRUE, items |-> << <<"market", "BTC/USD">>, <<"side", "buy">> >>] }

\* BaseCredentials, and FTXCredentials with its optional subaccount
Credentials(api_key, api_secret, subaccount) ==
    [api_key |-> api_key, api_secret |-> api_secret, subaccount |-> subaccount]

CredentialChoices(exchange) ==
    { Credentials("1tr", "API_SECRET", NoneStr) } \cup
    ( IF exchange = "ftx" THEN { Credentials("1tr", "API_SECRET", SomeStr("subaccount")) }
                          ELSE {} )

TimestampChoices == { None, Some(10) }

NoResult == [status |-> "none", req |-> 0, exc |-> ""]

Init ==
    \E exchange \in Exchanges, method \in Methods, params \in ParamChoices,
       headers \in HeaderChoices, data \in DataChoices, json \in JsonChoices,
       timestamp \in TimestampChoices :
    \E credentials \in CredentialChoices(exchange) :
        LET withData == IF data.kind = "map" THEN <<data.items>> ELSE <<>>
            withJson == IF json.given THEN <<json.items>> ELSE <<>>
            ds == <<params, headers>> \o withData \o withJson
            dataField == IF data.kind = "map" THEN DataMap(3)
                         ELSE [kind |-> data.kind, ref |-> 0, val |-> data.val]
            jsonField == IF json.given THEN Len(ds) ELSE 0
        IN  /\ dicts = ds
            /\ reqs = << Request(method, "url", "/orders", 1, 2, dataField, jsonField) >>
            /\ call = [exchange |-> exchange, request |-> 1,
                       credentials |-> credentials, timestamp |-> timestamp]
            /\ pc = "called"
            /\ result = NoResult
            /\ prev = NoResult
            /\ now = 1234567
            /\ clockLog = <<>>
            /\ pre = [dicts |-> ds, reqs |-> reqs]
            /\ rpc = "off"
            /\ sent = 0
            /\ transport = NoTransport
            /\ classified = NoOutcome
            /\ outcome = NoOutcome
            /\ wire = <<>>
            /\ adapter = [bound |-> FALSE, credentials |-> Credentials("", "", NoneStr), calls |-> 0]
            /\ tasks = <<>>
            /\ pool = {}

\* the state after an invocation that produced outcome o
Outcome(o) ==
    /\ dicts' = o.dicts
    /\ reqs' = o.reqs
    /\ result' = [status |-> IF o.raised THEN "raised" ELSE "returned",
                  req |-> o.req, exc |-> o.exc]
    /\ pc' = IF o.raised THEN "raised" ELSE "returned"
    /\ clockLog' = o.reads
    /\ UNCHANGED <<call, prev, now, pre>>
    /\ UNCHANGED restVars
    /\ UNCHANGED concVars

BinanceSign ==
    /\ pc = "called"
    /\ call.exchange = "binance"
    /\ Outcome(BinanceSignRequest(dicts, reqs, call.request, call.credentials,
                                  call.timestamp, now))

BybitSign ==
    /\ pc = "called"
    /\ call.exchange = "bybit"
    /\ Outcome(BybitSignRequest(dicts, reqs, call.request, call.credentials,
                                call.timestamp, now))

FTXSign ==
    /\ pc = "called"
    /\ call.exchange = "ftx"
    /\ Outcome(FTXSignRequest(dicts, reqs, call.request, call.credentials,
                              call.timestamp, now))

\* the caller invokes the signer once more with the same arguments, some time
\* later
CallAgain ==
    /\ pc \in {"returned", "raised"}
    /\ prev.status = "none"
    /\ \E d \in 0..MaxElapsed : now' = now + d * 700
    /\ prev' = result
    /\ result' = NoResult
    /\ pc' = "called"
    /\ clockLog' = <<>>
    /\ pre' = [dicts |-> dicts, reqs |-> reqs]
    /\ UNCHANGED <<dicts, reqs, call>>
    /\ UNCHANGED restVars
    /\ UNCHANGED concVars

Next == BinanceSign \/ BybitSign \/ FTXSign \/ CallAgain

Spec == Init /\ [][Next]_vars

-----------------------------------------------------------------------------
(* Vocabulary of the properties. *)

\* the request as it was passed in, and the request that came back
In == pre.reqs[call.request]
Out == reqs[result.req]
InParams == pre.dicts[In.params]
InHeaders == pre.dicts[In.headers]

\* the timestamp the invocation signed with; the clock does not move during an
\* invocation, so after it `now` is still the clock the invocation saw
Ts == IF call.timestamp.given THEN call.timestamp.val ELSE now \div 1000

SignedBy(exchange) == pc = "returned" /\ call.exchange = exchange

\* a Request by value, as dataclass equality compares it
ReqValue(ds, rs, a) ==
    [method |-> rs[a].method, base_url |-> rs[a].base_url, path |-> rs[a].path,
     params |-> ds[rs[a].params], headers |-> ds[rs[a].headers],
     data |-> [kind |-> rs[a].data.kind, val |-> rs[a].data.val,
               items |-> IF rs[a].data.kind = "map" THEN ds[rs[a].data.ref] ELSE <<>>],
     json |-> IF rs[a].json = 0 THEN [given |-> FALSE, items |-> <<>>]
              ELSE [given |-> TRUE, items |-> ds[rs[a].json]]]

\* the signer of an exchange
SignRequest(exchange, ds, rs, r, credentials, timestamp, clock) ==
    CASE exchange = "binance" -> BinanceSignRequest(ds, rs, r, credentials, timestamp, clock)
      [] exchange = "bybit" -> BybitSignRequest(ds, rs, r, credentials, timestamp, clock)
      [] exchange = "ftx" -> FTXSignRequest(ds, rs, r, credentials, timestamp, clock)

StrictlySorted(ks) == \A i \in 1..(Len(ks) - 1) : StrLess(ks[i], ks[i + 1])

\* same keys, same value under every key (dict equality, order aside)
SameMapping(a, b) == KeySet(a) = KeySet(b) /\ \A k \in KeySet(a) : Get(a, k) = Get(b, k)

-----------------------------------------------------------------------------
\* C1: the signer of every exchange never raises: whatever Request, credentials
\* and timestamp it is given, sign_request returns a signed Request.
C1_SignerNeverRaises == pc # "raised"

\* C2: non-mutation: once sign_request has returned, every Request and every
\* mapping that existed when it was entered has the value it had then, and the
\* returned Request is an object that did not exist before.
C2_NonMutation ==
    pc = "returned" =>
        /\ Len(dicts) >= Len(pre.dicts)
        /\ \A a \in DOMAIN pre.dicts : dicts[a] = pre.dicts[a]
        /\ Len(reqs) >= Len(pre.reqs)
        /\ \A a \in DOMAIN pre.reqs : reqs[a] = pre.reqs[a]
        /\ result.req \in DOMAIN reqs
        /\ result.req \notin DOMAIN pre.reqs

C2_Witness ==
    /\ SignedBy("ftx")
    /\ prev.status = "returned"
    /\ Len(InHeaders) > 0
    /\ call.credentials.subaccount.given

-----------------------------------------------------------------------------
(* Bybit *)

\* the caller's fields the Bybit signer signs: params for GET, else the form
\* in data (nothing when data is absent or empty)
BybitCallerFields ==
    IF In.method = "GET" THEN InParams
    ELSE IF In.data.kind = "map" THEN pre.dicts[In.data.ref] ELSE <<>>

\* the signed parameter set of the returned request
BybitSignedSet == IF In.method = "GET" THEN dicts[Out.params] ELSE dicts[Out.data.ref]

\* C3 as stated: the keys of the signed parameter set of the Bybit signer,
\* enumerated in order, are in strict lexicographic order.
C3_SignedKeysSorted == SignedBy("bybit") => StrictlySorted(Keys(BybitSignedSet))

\* C3 as amended: the keys that are signed (api_key, timestamp and the caller's
\* fields) are enumerated in strict lexicographic order whatever the insertion
\* order was, and sign comes after all of them, as the last key, unless the
\* caller's fields already held a sign entry, which keeps its sorted place.
C3_SignedKeysSortedThenSign ==
    SignedBy("bybit") =>
        LET ks == Keys(BybitSignedSet)
        IN  IF HasKey(BybitCallerFields, "sign")
            THEN StrictlySorted(ks)
            ELSE /\ Len(ks) >= 3
                 /\ ks[Len(ks)] = "sign"
                 /\ StrictlySorted(SubSeq(ks, 1, Len(ks) - 1))

C3_Witness ==
    /\ SignedBy("bybit")
    /\ In.method = "GET"
    /\ Len(InParams) = 2
    /\ ~HasKey(InParams, "sign")
    /\ ~StrictlySorted(Keys(InParams))

-----------------------------------------------------------------------------
(* Binance *)

\* C4: Binance parameter ordering: the signed params are the input params in
\* their insertion order with their values, then timestamp, then signature as
\* the last key; the signature is the HMAC, keyed by api_secret, of the
\* URL-encoding of the input params followed by timestamp.
C4_BinanceOrdering ==
    SignedBy("binance") =>
        LET signable == Append(InParams, <<"timestamp", Str(Ts)>>)
            signature == HmacSha256Hex(call.credentials.api_secret, Urlencode(signable))
        IN  dicts[Out.params] = Append(signable, <<"signature", signature>>)

C4_Witness ==
    /\ SignedBy("binance")
    /\ Len(InParams) = 2
    /\ ~StrictlySorted(Keys(InParams))
    /\ HasKey(InParams, "symbol")

-----------------------------------------------------------------------------
(* FTX *)

OutHeaders == dicts[Out.headers]

\* the string FTX signs: timestamp, method, path, then the JSON text of the
\* json body, or nothing when json is None
FTXSignedString ==
    Str(Ts) \o In.method \o In.path \o
        (IF In.json = 0 THEN "" ELSE JsonDumps(pre.dicts[In.json]))

\* the headers the spec names, under the prefix given
FTXAuthHeaders(prefix) ==
    << <<prefix \o "-KEY", call.credentials.api_key>>,
       <<prefix \o "-SIGN", HmacSha256Hex(call.credentials.api_secret, FTXSignedString)>>,
       <<prefix \o "-TS", Str(Ts)>> >> \o
    (IF call.credentials.subaccount.given
     THEN << <<prefix \o "-SUBACCOUNT", call.credentials.subaccount.val>> >>
     ELSE <<>>)

\* C6 as stated: the signed headers are the input headers plus X-KEY = api_key,
\* X-SIGN = signature, X-TS = str(timestamp), plus X-SUBACCOUNT = subaccount
\* when the credentials carry one.
C6_HeadersNamedX ==
    SignedBy("ftx") => SameMapping(OutHeaders, DictMerge(InHeaders, FTXAuthHeaders("X")))

\* C6 as amended: the signed headers are the input headers plus FTX-KEY =
\* api_key, FTX-SIGN = signature, FTX-TS = str(timestamp), plus FTX-SUBACCOUNT
\* = subaccount when the credentials carry one.
C6_HeadersNamedFTX ==
    SignedBy("ftx") => SameMapping(OutHeaders, DictMerge(InHeaders, FTXAuthHeaders("FTX")))

C6_Witness ==
    /\ SignedBy("ftx")
    /\ call.credentials.subaccount.given
    /\ HasKey(InHeaders, "Accept")
    /\ HasKey(InHeaders, "FTX-KEY")
    /\ In.json # 0

\* the same call made with the other choice of subaccount
FTXOtherCredentials ==
    Credentials(call.credentials.api_key, call.credentials.api_secret,
                IF call.credentials.subaccount.given THEN NoneStr
                                                      ELSE SomeStr("subaccount"))
FTXOtherHeaders ==
    LET o == FTXSignRequest(pre.dicts, pre.reqs, call.request, FTXOtherCredentials,
                            Some(Ts), now)
    IN  o.dicts[o.reqs[o.req].headers]

FTXSameAuthWithoutSubaccount ==
    \A k \in {"FTX-KEY", "FTX-SIGN", "FTX-TS"} :
        /\ HasKey(OutHeaders, k)
        /\ HasKey(FTXOtherHeaders, k)
        /\ Get(OutHeaders, k) = Get(FTXOtherHeaders, k)

\* C7 as stated: signing with or without a subaccount gives the same signature
\* and the same key / sign / timestamp headers; the subaccount header is in the
\* output if and only if the credentials' subaccount is not None, and then holds
\* that subaccount.
C7_SubaccountIff ==
    SignedBy("ftx") =>
        /\ FTXSameAuthWithoutSubaccount
        /\ HasKey(OutHeaders, "FTX-SUBACCOUNT") <=> call.credentials.subaccount.given
        /\ call.credentials.subaccount.given =>
               Get(OutHeaders, "FTX-SUBACCOUNT") = call.credentials.subaccount.val

\* C7 as amended: signing with or without a subaccount gives the same signature
\* and the same key / sign / timestamp headers; when the credentials' subaccount
\* is not None the subaccount header holds it; when it is None the signer adds
\* no subaccount header: the output has one only if the input headers had one,
\* with the input's value.
C7_SubaccountFromCredentialsOrInput ==
    SignedBy("ftx") =>
        /\ FTXSameAuthWithoutSubaccount
        /\ IF call.credentials.subaccount.given
           THEN /\ HasKey(OutHeaders, "FTX-SUBACCOUNT")
                /\ Get(OutHeaders, "FTX-SUBACCOUNT") = call.credentials.subaccount.val
           ELSE /\ HasKey(OutHeaders, "FTX-SUBACCOUNT") <=> HasKey(InHeaders, "FTX-SUBACCOUNT")
                /\ HasKey(InHeaders, "FTX-SUBACCOUNT") =>
                       Get(OutHeaders, "FTX-SUBACCOUNT") = Get(InHeaders, "FTX-SUBACCOUNT")

C7_Witness ==
    /\ SignedBy("ftx")
    /\ call.credentials.subaccount.given
    /\ HasKey(InHeaders, "FTX-SUBACCOUNT")
    /\ Get(InHeaders, "FTX-SUBACCOUNT") # call.credentials.subaccount.val

\* the signature of the request that differs from the input only in params,
\* headers and data.  Every reachable call is compared with the call that has
\* empty params, empty headers and no data, so any two calls that differ only
\* in these three fields are compared through it.
FTXSignatureWith(params, headers, data) ==
    LET ds == [pre.dicts EXCEPT ![In.params] = params, ![In.headers] = headers]
        rs == [pre.reqs EXCEPT ![call.request].data = data]
        o == FTXSignRequest(ds, rs, call.request, call.credentials, Some(Ts), now)
    IN  Get(o.dicts[o.reqs[o.req].headers], "FTX-SIGN")

-----------------------------------------------------------------------------
(* All three signers *)

\* C9: determinism: for a fixed (request, credentials, timestamp), a second
\* invocation of sign_request, made at any later time, ends as the first did
\* and returns a Request equal to the first one's, field by field.
C9_Determinism ==
    (pc \in {"returned", "raised"} /\ prev.status # "none" /\ call.timestamp.given) =>
        /\ result.status = prev.status
        /\ result.exc = prev.exc
        /\ result.status = "returned" =>
               /\ result.req # prev.req
               /\ ReqValue(dicts, reqs, result.req) = ReqValue(dicts, reqs, prev.req)

C9_Witness ==
    /\ pc = "returned"
    /\ prev.status = "returned"
    /\ call.timestamp.given
    /\ now \div 1000 # 1234
    /\ call.exchange = "bybit"
    /\ Len(InParams) = 2

\* the timestamp field of the signed request, where the exchange puts it
SignedTimestamp ==
    CASE call.exchange = "binance" -> Get(dicts[Out.params], "timestamp")
      [] call.exchange = "bybit" -> Get(BybitSignedSet, "timestamp")
      [] call.exchange = "ftx" -> Get(OutHeaders, "FTX-TS")

\* the same call with the timestamp passed explicitly
SignedWith(timestamp) ==
    SignRequest(call.exchange, pre.dicts, pre.reqs, call.request, call.credentials,
                Some(timestamp), now)

\* C10: default timestamp: without a timestamp the result is the one the call
\* gives with timestamp = the clock's Unix time in milliseconds at that call;
\* the clock is read exactly once when the timestamp is omitted and never when
\* one is supplied.
C10_DefaultTimestamp ==
    pc \in {"returned", "raised"} =>
        IF call.timestamp.given
        THEN /\ clockLog = <<>>
             /\ pc = "returned" => SignedTimestamp = Str(call.timestamp.val)
        ELSE /\ clockLog = << now \div 1000 >>
             /\ SignedWith(now \div 1000).raised = (pc = "raised")
             /\ pc = "returned" =>
                    /\ SignedTimestamp = Str(now \div 1000)
                    /\ LET o == SignedWith(now \div 1000)
                       IN  ReqValue(o.dicts, o.reqs, o.req) = ReqValue(dicts, reqs, result.req)

C10_Witness ==
    /\ pc = "returned"
    /\ ~call.timestamp.given
    /\ prev.status = "returned"
    /\ clockLog = <<1235>>
    /\ SignedTimestamp = "1235"

-----------------------------------------------------------------------------
(* The REST adapters. An adapter method builds its Request, signs it when  *)
(* the endpoint is private, and awaits _send_request; the transport then   *)
(* refuses the connection, times out, or delivers a response, and the      *)
(* method resumes with it.                                                 *)

\* the arguments a method passes to Request(); params and headers default to
\* a fresh empty dict each
RequestArgs(method, path, params, data) ==
    [method |-> method, path |-> path, params |-> params, data |-> data]

NoData == [given |-> FALSE, items |-> <<>>]
FormData(items) == [given |-> TRUE, items |-> items]

SymbolParams(symbol) == IF symbol.given THEN << <<"symbol", symbol.val>> >> ELSE <<>>

BinanceGetTicker(symbol) ==
    RequestArgs("GET", "/api/v3/ticker/bookTicker", SymbolParams(symbol), NoData)
BinanceGetExchangeInfo(symbol) ==
    RequestArgs("GET", "/api/v3/exchangeInfo", SymbolParams(symbol), NoData)
BinanceGetAccountInfo ==
    RequestArgs("GET", "/api/v3/account", <<>>, NoData)

\* the optional arguments of Binance new_order, each given or None
Order(order_type, time_in_force, quantity, quote_order_qty, price, new_client_order_id, stop_price, iceberg_qty, new_order_response_type, recv_window) ==
    [order_type |-> order_type, time_in_force |-> time_in_force, quantity |-> quantity,
     quote_order_qty |-> quote_order_qty, price |-> price,
     new_client_order_id |-> new_client_order_id, stop_price |-> stop_price,
     iceberg_qty |-> iceberg_qty, new_order_response_type |-> new_order_response_type,
     recv_window |-> recv_window]

NoOrder == Order("", NoneStr, NoneStr, NoneStr, NoneStr, NoneStr, NoneStr, NoneStr, NoneStr, None)

\* a variant whose LIMIT case also requires iceberg_qty to be absent
BinanceIsValidParamsLimitWithoutIceberg(o) ==
    CASE o.order_type = "MARKET" ->
            /\ \/ o.quantity.given /\ ~o.quote_order_qty.given
               \/ ~o.quantity.given /\ o.quote_order_qty.given
            /\ ~o.price.given
            /\ ~o.stop_price.given
            /\ ~o.iceberg_qty.given
            /\ ~o.time_in_force.given
      [] o.order_type = "LIMIT" ->
            /\ o.price.given
            /\ o.quantity.given
            /\ o.time_in_force.given
            /\ ~o.quote_order_qty.given
            /\ ~o.stop_price.given
            /\ ~o.iceberg_qty.given
      [] o.order_type \in {"STOP_LOSS", "TAKE_PROFIT"} ->
            /\ o.quantity.given
            /\ o.stop_price.given
            /\ ~o.price.given
            /\ ~o.iceberg_qty.given
            /\ ~o.quote_order_qty.given
            /\ ~o.time_in_force.given
      [] o.order_type \in {"STOP_LOSS_LIMIT", "TAKE_PROFIT_LIMIT"} ->
            /\ o.quantity.given
            /\ o.price.given
            /\ o.stop_price.given
            /\ o.time_in_force.given
            /\ ~o.quote_order_qty.given
      [] o.order_type = "LIMIT_MAKER" ->
            /\ o.quantity.given
            /\ o.price.given
            /\ ~o.stop_price.given
            /\ ~o.time_in_force.given
            /\ ~o.quote_order_qty.given
            /\ ~o.iceberg_qty.given

\* new_order: the match statement that checks the combination of arguments
BinanceIsValidParams(o) ==
    CASE o.order_type = "MARKET" ->
            /\ \/ o.quantity.given /\ ~o.quote_order_qty.given
               \/ ~o.quantity.given /\ o.quote_order_qty.given
            /\ ~o.price.given
            /\ ~o.stop_price.given
            /\ ~o.iceberg_qty.given
            /\ ~o.time_in_force.given
      [] o.order_type = "LIMIT" ->
            /\ o.price.given
            /\ o.quantity.given
            /\ o.time_in_force.given
            /\ ~o.quote_order_qty.given
            /\ ~o.stop_price.given
      [] o.order_type = "STOP_LOSS" ->
            /\ o.quantity.given
            /\ o.stop_price.given
            /\ ~o.price.given
            /\ ~o.iceberg_qty.given
            /\ ~o.quote_order_qty.given
            /\ ~o.time_in_force.given
      [] o.order_type = "STOP_LOSS_LIMIT" ->
            /\ o.quantity.given
            /\ o.price.given
            /\ o.stop_price.given
            /\ o.time_in_force.given
            /\ ~o.quote_order_qty.given
      [] o.order_type = "TAKE_PROFIT" ->
            /\ o.quantity.given
            /\ o.stop_price.given
            /\ ~o.price.given
            /\ ~o.iceberg_qty.given
            /\ ~o.quote_order_qty.given
            /\ ~o.time_in_force.given
      [] o.order_type = "TAKE_PROFIT_LIMIT" ->
            /\ o.quantity.given
            /\ o.price.given
            /\ o.stop_price.given
            /\ o.time_in_force.given
            /\ ~o.quote_order_qty.given
      [] o.order_type = "LIMIT_MAKER" ->
            /\ o.quantity.given
            /\ o.price.given
            /\ ~o.stop_price.given
            /\ ~o.time_in_force.given
            /\ ~o.quote_order_qty.given
            /\ ~o.iceberg_qty.given

\* params[name] = value when the argument is given
OptionalParam(name, option) == IF option.given THEN << <<name, option.val>> >> ELSE <<>>

BinanceNewOrder(symbol, o) ==
    RequestArgs("POST", "/api/v3/order",
                << <<"symbol", symbol.val>>, <<"side", "BUY">>, <<"type", o.order_type>> >>
                \o OptionalParam("timeInForce", o.time_in_force)
                \o OptionalParam("quantity", o.quantity)
                \o OptionalParam("quoteOrderQty", o.quote_order_qty)
                \o OptionalParam("price", o.price)
                \o OptionalParam("newClientOrderId", o.new_client_order_id)
                \o OptionalParam("stopPrice", o.stop_price)
                \o OptionalParam("icebergQty", o.iceberg_qty)
                \o OptionalParam("newOrderRespType", o.new_order_response_type)
                \o (IF o.recv_window.given
                    THEN << <<"recvWindow", Str(o.recv_window.val)>> >> ELSE <<>>),
                NoData)
BybitGetSymbols ==
    RequestArgs("GET", "/spot/v1/symbols", <<>>, NoData)
BybitGetTicker(symbol) ==
    RequestArgs("GET", "/spot/quote/v1/ticker/book_ticker", SymbolParams(symbol), NoData)
BybitGetBalances ==
    RequestArgs("GET", "/spot/v1/account", <<>>, NoData)
BybitNewOrder(symbol) ==
    RequestArgs("POST", "/spot/v1/order", <<>>,
                FormData(<< <<"symbol", symbol.val>>, <<"side", "Buy">>, <<"type", "MARKET">>,
                            <<"qty", "1">> >>))
FTXGetMarkets ==
    RequestArgs("GET", "/api/markets", <<>>, NoData)

\* the methods that are modelled, and whether each signs its request
Endpoints ==
    { <<"binance", "get_ticker">>, <<"binance", "get_exchange_info">>,
      <<"binance", "get_account_info">>, <<"binance", "new_order">>,
      <<"bybit", "get_symbols">>, <<"bybit", "get_ticker">>,
      <<"bybit", "get_balances">>, <<"bybit", "new_order">>,
      <<"ftx", "get_markets">> }

\* a variant in which only order placement signs its request
PrivateOrdersOnly(endpoint) == endpoint = "new_order"

Private(endpoint) == endpoint \in {"get_account_info", "get_balances", "new_order"}

EndpointRequest(exchange, endpoint, symbol, order) ==
    CASE exchange = "binance" /\ endpoint = "get_ticker" -> BinanceGetTicker(symbol)
      [] exchange = "binance" /\ endpoint = "get_exchange_info" -> BinanceGetExchangeInfo(symbol)
      [] exchange = "binance" /\ endpoint = "get_account_info" -> BinanceGetAccountInfo
      [] exchange = "binance" /\ endpoint = "new_order" -> BinanceNewOrder(symbol, order)
      [] exchange = "bybit" /\ endpoint = "get_symbols" -> BybitGetSymbols
      [] exchange = "bybit" /\ endpoint = "get_ticker" -> BybitGetTicker(symbol)
      [] exchange = "bybit" /\ endpoint = "get_balances" -> BybitGetBalances
      [] exchange = "bybit" /\ endpoint = "new_order" -> BybitNewOrder(symbol)
      [] exchange = "ftx" /\ endpoint = "get_markets" -> FTXGetMarkets

\* the symbol argument the method is called with
SymbolChoices(endpoint) ==
    CASE endpoint \in {"get_ticker", "get_exchange_info"} -> { NoneStr, SomeStr("BTCUSDT") }
      [] endpoint = "new_order" -> { SomeStr("BTCUSDT") }
      [] OTHER -> { NoneStr }

\* Request(...) evaluated in the stores: its dicts are allocated, then the object
NewRequest(ds, rs, args) ==
    LET params == Len(ds) + 1
        headers == Len(ds) + 2
        ds1 == ds \o << args.params, <<>> >> \o
               (IF args.data.given THEN << args.data.items >> ELSE <<>>)
        data == IF args.data.given THEN DataMap(Len(ds1)) ELSE DataNone
    IN  [dicts |-> ds1,
         reqs |-> Append(rs, Request(args.method, "url", args.path, params, headers, data, 0)),
         req |-> Len(rs) + 1]

\* the codes and messages the exchanges answer with
BinanceCodes == {-1002, -1022, -2014, -2015, -1111, -1121, -1131, -1000, -1130, 0}
BybitCodes ==
    {-1002, -1022, -2014, -2015, -1130, -1131, -1132, -1133, -1134, -1135, -1136, -1137,
     -1121, -100010, -100011, -1000, -1111}
Messages ==
    { "", "Invalid symbol.", "Data sent for paramter 'symbol' is not valid.",
      "Data sent for parameter 'symbol' is not valid." }
FTXErrorStrings ==
    { "", "No such market: BTC-PERP", "NO SUCH MARKET", "no such market",
      "Market: no such market", "No such", "Not logged in" }

\* a field that may be missing from an object
Field(k, v) == { <<>>, << <<k, v>> >> }

BinanceBodies ==
    { JsonList("tickers"), JsonList("") } \cup
    { JsonObject(m \o << <<"symbol", "BTCUSDT">> >>) : m \in Field("msg", "note") } \cup
    { JsonObject(<< <<"code", c>> >>) : c \in BinanceCodes } \cup
    { JsonObject(<< <<"code", c>>, <<"msg", m>> >>) : c \in BinanceCodes, m \in Messages }

BybitBodies ==
    { JsonObject(<< <<"ret_code", 0>> >> \o m \o r) :
        m \in Field("ret_msg", "OK"), r \in Field("result", "payload") } \cup
    { JsonObject(<< <<"ret_code", c>> >> \o r) :
        c \in BybitCodes, r \in Field("result", "payload") } \cup
    { JsonObject(<< <<"ret_code", c>>, <<"ret_msg", m>> >> \o r) :
        c \in BybitCodes, m \in Messages, r \in Field("result", "payload") }

FTXBodies ==
    { JsonObject(<< <<"success", TRUE>> >> \o r) : r \in Field("result", "payload") } \cup
    { JsonObject(<< <<"success", FALSE>> >> \o r) : r \in Field("result", "payload") } \cup
    { JsonObject(<< <<"success", s>>, <<"error", e>> >> \o r) :
        s \in BOOLEAN, e \in FTXErrorStrings, r \in Field("result", "payload") }

Bodies(exchange) ==
    CASE exchange = "binance" -> BinanceBodies
      [] exchange = "bybit" -> BybitBodies
      [] exchange = "ftx" -> FTXBodies

ResponseHeaders == { <<>>, << <<"Content-Type", "application/json">> >> }

\* an argument given or left out
Optional(v) == { NoneStr, SomeStr(v) }

\* the arguments new_order of Binance is called with: every order type with every
\* combination of given and omitted optional arguments
OrderChoices(exchange, endpoint) ==
    IF exchange = "binance" /\ endpoint = "new_order"
    THEN { Order(order_type, time_in_force, quantity, quote_order_qty, price,
                 new_client_order_id, stop_price, iceberg_qty, new_order_response_type,
                 recv_window) :
             order_type \in {"LIMIT", "MARKET", "STOP_LOSS", "STOP_LOSS_LIMIT", "TAKE_PROFIT",
                             "TAKE_PROFIT_LIMIT", "LIMIT_MAKER"},
             time_in_force \in Optional("GTC"), quantity \in Optional("100"),
             quote_order_qty \in Optional("1000"), price \in Optional("20000"),
             new_client_order_id \in Optional("sdf"), stop_price \in Optional("19000"),
             iceberg_qty \in Optional("10"), new_order_response_type \in Optional("RESULT"),
             recv_window \in { None, Some(5000) } }
    ELSE { NoOrder }

\* a variant that passes the credentials a bound adapter is constructed with by default
BoundArgumentsDefaultCredentials(a, c) ==
    [symbol |-> c.symbol, order |-> c.order, credentials |-> Credentials("", "", NoneStr)]

\* the arguments a method of a bound adapter passes to the credential-less one
BoundArguments(a, c) ==
    [symbol |-> c.symbol, order |-> c.order, credentials |-> a.credentials]

\* the arguments the method of the credential-less adapter runs with
Arguments(a, c) ==
    IF a.bound THEN BoundArguments(a, c)
    ELSE [symbol |-> c.symbol, order |-> c.order, credentials |-> c.credentials]

\* the adapter is constructed (bound: with the credentials; credential-less:
\* without any) and one of its methods is called
RestInit ==
    \E e \in Endpoints, bound \in BOOLEAN :
    \E symbol \in SymbolChoices(e[2]), order \in OrderChoices(e[1], e[2]) :
        /\ dicts = <<>>
        /\ reqs = <<>>
        /\ call = [exchange |-> e[1], endpoint |-> e[2], symbol |-> symbol, order |-> order,
                   request |-> 0,
                   credentials |-> Credentials("1tr", "API_SECRET", NoneStr),
                   timestamp |-> None]
        /\ pc = "off"
        /\ result = NoResult
        /\ prev = NoResult
        /\ now = 1234567
        /\ clockLog = <<>>
        /\ pre = [dicts |-> <<>>, reqs |-> <<>>]
        /\ rpc = "start"
        /\ sent = 0
        /\ transport = NoTransport
        /\ classified = NoOutcome
        /\ outcome = NoOutcome
        /\ wire = <<>>
        /\ adapter = [bound |-> bound,
                      credentials |-> IF bound THEN call.credentials
                                      ELSE Credentials("", "", NoneStr),
                      calls |-> 1]
        /\ tasks = <<>>
        /\ pool = {}

\* the method up to its await: the arguments are checked, the Request is built and,
\* for a private endpoint, signed; the signed Request is what _send_request hands
\* to the transport
RestCall ==
    /\ rpc = "start"
    /\ LET args == Arguments(adapter, call)
           built == NewRequest(dicts, reqs,
                               EndpointRequest(call.exchange, call.endpoint, args.symbol,
                                               args.order))
           signed == SignRequest(call.exchange, built.dicts, built.reqs, built.req,
                                 args.credentials, None, now)
       IN  IF /\ call.exchange = "binance"
              /\ call.endpoint = "new_order"
              /\ ~BinanceIsValidParams(args.order)
           THEN /\ outcome' = Raise([NoError EXCEPT !.type = "TypeError"])
                /\ rpc' = "done"
                /\ UNCHANGED <<dicts, reqs, call, sent, wire, clockLog>>
           ELSE IF ~Private(call.endpoint)
           THEN /\ dicts' = built.dicts
                /\ reqs' = built.reqs
                /\ call' = [call EXCEPT !.request = built.req]
                /\ sent' = built.req
                /\ wire' = Append(wire, built.req)
                /\ rpc' = "awaiting"
                /\ UNCHANGED <<outcome, clockLog>>
           ELSE /\ dicts' = signed.dicts
                /\ reqs' = signed.reqs
                /\ call' = [call EXCEPT !.request = built.req]
                /\ clockLog' = signed.reads
                /\ IF signed.raised
                   THEN /\ outcome' = Raise([NoError EXCEPT !.type = signed.exc])
                        /\ rpc' = "done"
                        /\ UNCHANGED <<sent, wire>>
                   ELSE /\ sent' = signed.req
                        /\ wire' = Append(wire, signed.req)
                        /\ rpc' = "awaiting"
                        /\ UNCHANGED outcome
    /\ UNCHANGED <<pc, result, prev, now, pre, transport, classified, adapter>>
    /\ UNCHANGED concVars

\* the call has ended; the same method is called again on the same adapter
NextCall ==
    /\ rpc = "done"
    /\ adapter.calls < MaxCalls
    /\ adapter' = [adapter EXCEPT !.calls = @ + 1]
    /\ call' = [call EXCEPT !.request = 0]
    /\ rpc' = "start"
    /\ sent' = 0
    /\ wire' = <<>>
    /\ transport' = NoTransport
    /\ classified' = NoOutcome
    /\ outcome' = NoOutcome
    /\ clockLog' = <<>>
    /\ UNCHANGED <<dicts, reqs, pc, result, prev, now, pre>>
    /\ UNCHANGED concVars

\* session.request raises aiohttp.ClientConnectionError
TransportRefuses ==
    /\ rpc = "awaiting"
    /\ transport' = ClientConnectionError
    /\ rpc' = "answered"
    /\ UNCHANGED <<dicts, reqs, call, pc, result, prev, now, clockLog, pre, sent, classified,
                   outcome, wire, adapter, tasks, pool>>

\* session.request raises asyncio.TimeoutError
TransportTimesOut ==
    /\ rpc = "awaiting"
    /\ transport' = TimeoutError
    /\ rpc' = "answered"
    /\ UNCHANGED <<dicts, reqs, call, pc, result, prev, now, clockLog, pre, sent, classified,
                   outcome, wire, adapter, tasks, pool>>

\* response.status: the status codes the exchange answers with
Statuses == {200, 400, 503}

\* session.request returns a response whose body decodes as JSON
TransportResponds ==
    /\ rpc = "awaiting"
    /\ \E status \in Statuses, headers \in ResponseHeaders, body \in Bodies(call.exchange) :
           transport' = HttpResponse(status, headers, body)
    /\ rpc' = "answered"
    /\ UNCHANGED <<dicts, reqs, call, pc, result, prev, now, clockLog, pre, sent, classified,
                   outcome, wire, adapter, tasks, pool>>

\* what the method does with the outcome of its _send_request: new_order of
\* Bybit catches and may reclassify, every other method lets it through
MethodOutcome(exchange, endpoint, sent_outcome) ==
    IF exchange = "bybit" /\ endpoint = "new_order"
    THEN BybitNewOrderExcept(sent_outcome)
    ELSE sent_outcome

\* _send_request resumes with a transport failure: the classifier is not reached
SendRequestFails ==
    /\ rpc = "answered"
    /\ transport.kind \in {"ClientConnectionError", "TimeoutError"}
    /\ outcome' = MethodOutcome(call.exchange, call.endpoint,
                                Raise(NetworkError(sent, transport.kind)))
    /\ rpc' = "done"
    /\ UNCHANGED <<dicts, reqs, call, pc, result, prev, now, clockLog, pre, sent, transport,
                   classified, wire, adapter, tasks, pool>>

\* a variant that hands the classifier the Request the method built, not the
\* one that was sent
HandleWithBuiltRequest(exchange) ==
    /\ rpc = "answered"
    /\ transport.kind = "response"
    /\ call.exchange = exchange
    /\ classified' = HandleResponse(exchange, call.request, transport)
    /\ outcome' = MethodOutcome(call.exchange, call.endpoint, classified')
    /\ rpc' = "done"
    /\ UNCHANGED <<dicts, reqs, call, pc, result, prev, now, clockLog, pre, sent, transport,
                   wire, adapter, tasks, pool>>

\* _send_request resumes with a response and hands it to _handle_response
Handle(exchange) ==
    /\ rpc = "answered"
    /\ transport.kind = "response"
    /\ call.exchange = exchange
    /\ classified' = HandleResponse(exchange, sent, transport)
    /\ outcome' = MethodOutcome(call.exchange, call.endpoint, classified')
    /\ rpc' = "done"
    /\ UNCHANGED <<dicts, reqs, call, pc, result, prev, now, clockLog, pre, sent, transport,
                   wire, adapter, tasks, pool>>

BinanceHandle == Handle("binance")
BybitHandle == Handle("bybit")
FTXHandle == Handle("ftx")

RestNext ==
    \/ RestCall
    \/ NextCall
    \/ TransportRefuses
    \/ TransportTimesOut
    \/ TransportResponds
    \/ SendRequestFails
    \/ BinanceHandle
    \/ BybitHandle
    \/ FTXHandle

RestSpec == RestInit /\ [][RestNext]_vars

-----------------------------------------------------------------------------
(* Vocabulary of the properties of the adapters. *)

\* the call has ended after the exchange answered it
Answered(exchange) == rpc = "done" /\ call.exchange = exchange /\ transport.kind = "response"

\* the decoded body of the response, and its fields
Body == transport.body
Has(k) == Body.kind = "object" /\ HasKey(Body.items, k)
BodyField(k) == Get(Body.items, k)

-----------------------------------------------------------------------------
(* C11. Binance envelope check: a list body is always returned to the      *)
(* caller unchanged; an object body is returned unchanged exactly when it  *)
(* has no code field; an object with a code field always ends in a raised  *)
(* error and no returned payload.                                          *)
C11_BinanceEnvelope ==
    Answered("binance") =>
        /\ Body.kind = "list" => outcome = Return(Body)
        /\ Body.kind = "object" => ((outcome = Return(Body)) <=> ~Has("code"))
        /\ Has("code") => outcome.status = "raised" /\ outcome.value = NoJson

\* an object whose code is 0 was answered, and the call raised
C11_Witness ==
    /\ Answered("binance")
    /\ Has("code")
    /\ BodyField("code") = 0
    /\ outcome.status = "raised"

-----------------------------------------------------------------------------
(* C12. Binance error-code mapping: on a failure envelope, codes -1002,    *)
(* -1022, -2014 and -2015 raise the auth error, -1111 the bad-precision    *)
(* error, -1121 the invalid-symbol error, -1131 the bad-recv-window error, *)
(* and every other code raises the generic Binance error.                  *)
C12_BinanceMapping ==
    LET code == BodyField("code")
        kind == CASE code \in {-1002, -1022, -2014, -2015} -> "BinanceAuthError"
                  [] code = -1111 -> "BinanceBadPrecisionError"
                  [] code = -1121 -> "BinanceInvalidSymbolError"
                  [] code = -1131 -> "BinanceBadRecvWindowError"
                  [] OTHER -> "BinanceError"
    IN  (Answered("binance") /\ Has("code")) =>
            outcome.status = "raised" /\ outcome.error.type = kind

-----------------------------------------------------------------------------
(* C13. Binance classifier boundary: a response whose body has code -1121  *)
(* and any msg string raises the invalid-symbol error, and the message     *)
(* field of that error equals the msg unchanged.                           *)
C13_InvalidSymbolKeepsMsg ==
    (Answered("binance") /\ Has("code") /\ Has("msg") /\ BodyField("code") = -1121) =>
        /\ outcome.status = "raised"
        /\ outcome.error.type = "BinanceInvalidSymbolError"
        /\ outcome.error.msg = BodyField("msg")

\* code -1121 came with a msg that is not empty, and the call has ended
C13_Witness ==
    /\ Answered("binance")
    /\ Has("code") /\ BodyField("code") = -1121
    /\ Has("msg") /\ BodyField("msg") = "Invalid symbol."
    /\ outcome.status = "raised"

-----------------------------------------------------------------------------
(* C14. Bybit envelope check: a response whose ret_code is 0 returns       *)
(* exactly the value of its result sub-field; every response whose         *)
(* ret_code is not 0 ends in a raised error and returns nothing.           *)
C14_BybitEnvelope ==
    (Answered("bybit") /\ Has("ret_code")) =>
        /\ (BodyField("ret_code") = 0 /\ Has("result")) =>
                outcome = Return(JsonValue(BodyField("result")))
        /\ BodyField("ret_code") # 0 =>
                outcome.status = "raised" /\ outcome.value = NoJson

\* a body with ret_code 0, a ret_msg and a result was answered and the call returned
C14_Witness ==
    /\ Answered("bybit")
    /\ Has("ret_code") /\ BodyField("ret_code") = 0
    /\ Has("ret_msg") /\ Has("result")
    /\ outcome.status = "returned"

-----------------------------------------------------------------------------
(* C15. Bybit error-code mapping: on a nonzero ret_code the classifier     *)
(* raises the auth error for -1002, -1022, -2014 and -2015,                *)
(* invalid-parameter for -1130, insufficient-balance for -1131,            *)
(* too-high-price for -1132, too-low-price for -1133,                      *)
(* invalid-price-decimals for -1134, too-high-quantity for -1135,          *)
(* too-low-quantity for -1136, invalid-quantity-decimals for -1137,        *)
(* invalid-symbol for -1121, -100010 and -100011, and the generic Bybit    *)
(* error for every other nonzero code.                                     *)
C15_BybitMapping ==
    LET code == BodyField("ret_code")
        kind == CASE code \in {-1002, -1022, -2014, -2015} -> "BybitAuthError"
                  [] code = -1130 -> "BybitInvalidParameterError"
                  [] code = -1131 -> "BybitInsufficientBalanceError"
                  [] code = -1132 -> "BybitTooHighPriceError"
                  [] code = -1133 -> "BybitTooLowPriceError"
                  [] code = -1134 -> "BybitInvalidPriceDecimalsError"
                  [] code = -1135 -> "BybitTooHighQuantityError"
                  [] code = -1136 -> "BybitTooLowQuantityError"
                  [] code = -1137 -> "BybitInvalidQuantityDecimalsError"
                  [] code \in {-1121, -100010, -100011} -> "BybitInvalidSymbolError"
                  [] OTHER -> "BybitError"
    IN  (Answered("bybit") /\ Has("ret_code") /\ code # 0) =>
            classified.status = "raised" /\ classified.error.type = kind

\* new_order was answered with -1133 and no ret_msg, and the classifier raised
C15_Witness ==
    /\ Answered("bybit")
    /\ call.endpoint = "new_order"
    /\ Has("ret_code") /\ BodyField("ret_code") = -1133
    /\ ~Has("ret_msg")
    /\ classified.status = "raised"

-----------------------------------------------------------------------------
(* C16. Classification never fails: for every response that one of the     *)
(* three classifiers decodes as a failure, with a code outside the table   *)
(* and with a body that lacks the message field included, the classifier   *)
(* raises an exchange error of that exchange (the mapped class or the      *)
(* generic one), never a network error or an unrelated exception.          *)
DecodedAsFailure ==
    CASE call.exchange = "binance" -> Has("code")
      [] call.exchange = "bybit" -> Has("ret_code") /\ BodyField("ret_code") # 0
      [] call.exchange = "ftx" -> Has("success") /\ ~BodyField("success")

GenericError ==
    CASE call.exchange = "binance" -> "BinanceError"
      [] call.exchange = "bybit" -> "BybitError"
      [] call.exchange = "ftx" -> "FTXError"

C16_ClassificationNeverFails ==
    (rpc = "done" /\ transport.kind = "response" /\ DecodedAsFailure) =>
        /\ classified.status = "raised"
        /\ IsSubclass(classified.error.type, GenericError)

-----------------------------------------------------------------------------
(* C17. FTX classification: a response whose success field is true returns *)
(* its result sub-field; a response whose success field is false raises    *)
(* the invalid-market error when its error string, compared without regard *)
(* to case, starts with "no such market", and the generic FTX error for    *)
(* every other error string.                                               *)

\* the error strings answered that start with "no such market" in some casing
NoSuchMarketStrings == { "No such market: BTC-PERP", "NO SUCH MARKET", "no such market" }

C17_FTXClassification ==
    (Answered("ftx") /\ Has("success")) =>
        /\ (BodyField("success") /\ Has("result")) =>
                outcome = Return(JsonValue(BodyField("result")))
        /\ (~BodyField("success") /\ Has("error")) =>
                /\ outcome.status = "raised"
                /\ outcome.error.type =
                        IF BodyField("error") \in NoSuchMarketStrings
                        THEN "FTXInvalidMarketError" ELSE "FTXError"

\* the error string came in capitals and the call raised
C17_Witness ==
    /\ Answered("ftx")
    /\ Has("success") /\ ~BodyField("success")
    /\ Has("error") /\ BodyField("error") = "NO SUCH MARKET"
    /\ outcome.status = "raised"

-----------------------------------------------------------------------------
(* C18. Every exchange error a call raises after the exchange rejected it, *)
(* on all three exchanges and with the symbol reclassification of Bybit's  *)
(* new_order included, carries the request of the call (the Request that   *)
(* was sent) and a response whose status, headers and body are those of    *)
(* the HTTP response received.                                             *)
C18_ErrorCarriesRequestAndResponse ==
    (rpc = "done" /\ outcome.status = "raised"
        /\ IsSubclass(outcome.error.type, "ExchangeError")) =>
        /\ transport.kind = "response"
        /\ outcome.error.request = sent
        /\ outcome.error.response =
                Response(transport.status, transport.headers, transport.body)

\* new_order of Bybit reclassified an invalid-parameter error of a response with headers
C18_Witness ==
    /\ Answered("bybit")
    /\ call.endpoint = "new_order"
    /\ classified.error.type = "BybitInvalidParameterError"
    /\ outcome.error.type = "BybitInvalidSymbolError"
    /\ transport.headers # <<>>
    /\ sent # call.request

-----------------------------------------------------------------------------
(* C19. Network errors: when the transport fails to connect the call       *)
(* raises the not-connected error, and when it times out before a response *)
(* the call raises the connection-timeout error; both carry the request    *)
(* and no response, the classifier is never invoked for the call, and no   *)
(* exchange error is raised.                                               *)
C19_NetworkErrors ==
    (rpc = "done" /\ transport.kind \in {"ClientConnectionError", "TimeoutError"}) =>
        /\ outcome.status = "raised"
        /\ outcome.error.type =
                IF transport.kind = "ClientConnectionError"
                THEN "RESTNotConnectionError" ELSE "RESTConnectionTimeoutError"
        /\ IsSubclass(outcome.error.type, "RESTNetworkError")
        /\ ~IsSubclass(outcome.error.type, "ExchangeError")
        /\ outcome.error.request = sent
        /\ ~outcome.error.response.given
        /\ classified = NoOutcome

\* new_order of Bybit, whose request is signed, timed out
C19_Witness ==
    /\ rpc = "done"
    /\ call.exchange = "bybit" /\ call.endpoint = "new_order"
    /\ transport.kind = "TimeoutError"
    /\ outcome.status = "raised"
    /\ sent # 0

-----------------------------------------------------------------------------
(* C20. The string representation of every typed error the three exchanges *)
(* raise includes the name of the exchange and, whenever the response      *)
(* supplied a message (msg of Binance, ret_msg of Bybit, error of FTX),    *)
(* that message.                                                           *)
ExchangeName ==
    CASE call.exchange = "binance" -> "Binance"
      [] call.exchange = "bybit" -> "Bybit"
      [] call.exchange = "ftx" -> "FTX"

MessageField ==
    CASE call.exchange = "binance" -> "msg"
      [] call.exchange = "bybit" -> "ret_msg"
      [] call.exchange = "ftx" -> "error"

\* text t occurs in the string: as one of its words, or as the message formatted into it
Includes(str, t) ==
    \/ t = ""
    \/ \E i \in DOMAIN str.words : str.words[i] = t
    \/ str.msg = t

C20_StrNamesExchangeAndMessage ==
    (rpc = "done" /\ outcome.status = "raised"
        /\ IsSubclass(outcome.error.type, "ExchangeError")) =>
        /\ Includes(ErrorStr(outcome.error), ExchangeName)
        /\ Has(MessageField) => Includes(ErrorStr(outcome.error), BodyField(MessageField))

-----------------------------------------------------------------------------
(* C21. Bybit order-placement reclassification: when the response of       *)
(* new_order is classified as the invalid-parameter error, the caller      *)
(* receives the invalid-symbol error if the ret_msg of the response is one *)
(* of the two symbol-not-valid messages, and the original                  *)
(* invalid-parameter error otherwise; every other error raised during      *)
(* new_order reaches the caller unchanged, and no other endpoint           *)
(* reclassifies.                                                           *)
C21_Reclassification ==
    (rpc = "done" /\ call.exchange = "bybit" /\ transport.kind # "none") =>
        LET raised == IF transport.kind = "response" THEN classified
                      ELSE Raise(NetworkError(sent, transport.kind))
        IN  IF /\ call.endpoint = "new_order"
               /\ raised.status = "raised"
               /\ raised.error.type = "BybitInvalidParameterError"
               /\ Has("ret_msg")
               /\ BodyField("ret_msg") \in
                      { "Data sent for paramter 'symbol' is not valid.",
                        "Data sent for parameter 'symbol' is not valid." }
            THEN /\ outcome.status = "raised"
                 /\ outcome.error.type = "BybitInvalidSymbolError"
            ELSE outcome = raised

-----------------------------------------------------------------------------
(* C22. No retry, no swallowed error: every adapter call hands at most one *)
(* request to the transport; if the transport fails or the response is     *)
(* classified as a failure, the call ends by raising exactly one typed     *)
(* error to the caller and returns no payload; if the response is          *)
(* classified as a success the call returns the payload and raises         *)
(* nothing.                                                                *)
C22_NoRetryNoSwallow ==
    /\ Len(wire) <= 1
    /\ (rpc = "done" /\ transport.kind # "none") =>
            /\ (transport.kind # "response" \/ DecodedAsFailure) =>
                    /\ outcome.status = "raised"
                    /\ IsSubclass(outcome.error.type, "RESTError")
                    /\ outcome.value = NoJson
            /\ (transport.kind = "response" /\ classified.status = "returned") =>
                    /\ outcome = classified
                    /\ outcome.error = NoError

-----------------------------------------------------------------------------
(* C23. Call ordering: for every private endpoint call (get_account_info   *)
(* and new_order of Binance, get_balances and new_order of Bybit) the      *)
(* request handed to the transport is the output of the signer for the     *)
(* request the adapter built and the credentials of the call, so signing   *)
(* precedes sending, and classification happens only after a response has  *)
(* been received; public endpoint calls are sent without passing through   *)
(* the signer.                                                             *)
PrivateCall ==
    <<call.exchange, call.endpoint>> \in
        { <<"binance", "get_account_info">>, <<"binance", "new_order">>,
          <<"bybit", "get_balances">>, <<"bybit", "new_order">> }

C23_CallOrdering ==
    /\ rpc = "start" => wire = <<>> /\ sent = 0
    /\ rpc \in {"start", "awaiting"} => transport = NoTransport /\ classified = NoOutcome
    /\ classified # NoOutcome => transport.kind = "response"
    /\ wire # <<>> => wire = <<sent>>
    /\ sent # 0 =>
            IF PrivateCall
            THEN LET signed == SignRequest(call.exchange, dicts, reqs, call.request,
                                           call.credentials, None, now)
                 IN  /\ ~signed.raised
                     /\ sent # call.request
                     /\ clockLog # <<>>
                     /\ ReqValue(dicts, reqs, sent) =
                            ReqValue(signed.dicts, signed.reqs, signed.req)
            ELSE sent = call.request /\ clockLog = <<>>

\* get_balances of Bybit has handed its signed request to the transport
C23_Witness ==
    /\ call.exchange = "bybit" /\ call.endpoint = "get_balances"
    /\ rpc = "awaiting"
    /\ wire = <<sent>>
    /\ sent # call.request

-----------------------------------------------------------------------------
(* Several calls in flight at once on one credential-less adapter. Each    *)
(* call is a coroutine with its own arguments and locals; the coroutines   *)
(* share the adapter, whose session pools the requests, and interleave at  *)
(* the await of session.request.                                           *)

\* the private methods of the credential-less adapters
PrivateEndpoints(exchange) ==
    CASE exchange = "binance" -> {"get_account_info", "new_order"}
      [] exchange = "bybit" -> {"get_balances", "new_order"}

\* the arguments of the i-th caller: its own symbol and its own credentials
TaskSymbol(i) == SomeStr("SYM" \o Str(i))
TaskCredentialChoice(i) == Credentials("key" \o Str(i), "secret" \o Str(i), NoneStr)
TaskOrder == Order("MARKET", NoneStr, SomeStr("100"), NoneStr, NoneStr, NoneStr, NoneStr,
                   NoneStr, NoneStr, None)

\* a variant in which the adapter keeps the credentials of its first caller
TaskCredentialsOfFirst(ts, i) == ts[1].credentials

\* the credentials parameter of the i-th call
TaskCredentials(ts, i) == ts[i].credentials

\* the bodies the exchange answers a private call with
TaskBodies(exchange) ==
    CASE exchange = "binance" ->
            { JsonObject(<< <<"orderId", "1">> >>),
              JsonObject(<< <<"code", -2015>>, <<"msg", "Invalid symbol.">> >>) }
      [] exchange = "bybit" ->
            { JsonObject(<< <<"ret_code", 0>>, <<"result", "payload">> >>),
              JsonObject(<< <<"ret_code", -1130>>,
                            <<"ret_msg", "Data sent for parameter 'symbol' is not valid.">> >>) }

ConcInit ==
    \E exchange \in {"binance", "bybit"} :
    \E endpoints \in [1..MaxInFlight -> PrivateEndpoints(exchange)] :
        /\ dicts = <<>>
        /\ reqs = <<>>
        /\ call = [exchange |-> exchange]
        /\ pc = "off"
        /\ result = NoResult
        /\ prev = NoResult
        /\ now = 1234567
        /\ clockLog = <<>>
        /\ pre = [dicts |-> <<>>, reqs |-> <<>>]
        /\ rpc = "off"
        /\ sent = 0
        /\ transport = NoTransport
        /\ classified = NoOutcome
        /\ outcome = NoOutcome
        /\ wire = <<>>
        /\ adapter = [bound |-> FALSE, credentials |-> Credentials("", "", NoneStr),
                      calls |-> MaxInFlight]
        /\ tasks = [i \in 1..MaxInFlight |->
                        [endpoint |-> endpoints[i], symbol |-> TaskSymbol(i),
                         credentials |-> TaskCredentialChoice(i), pc |-> "start",
                         request |-> 0, sent |-> 0, transport |-> NoTransport,
                         classified |-> NoOutcome, outcome |-> NoOutcome]]
        /\ pool = {}

\* the i-th coroutine runs its method up to the await: it builds and signs its
\* Request and hands it to the session
TaskCall(i) ==
    /\ tasks[i].pc = "start"
    /\ LET built == NewRequest(dicts, reqs,
                               EndpointRequest(call.exchange, tasks[i].endpoint,
                                               tasks[i].symbol, TaskOrder))
           signed == SignRequest(call.exchange, built.dicts, built.reqs, built.req,
                                 TaskCredentials(tasks, i), None, now)
       IN  /\ dicts' = signed.dicts
           /\ reqs' = signed.reqs
           /\ IF signed.raised
              THEN /\ tasks' = [tasks EXCEPT ![i].pc = "done", ![i].request = built.req,
                                   ![i].outcome = Raise([NoError EXCEPT !.type = signed.exc])]
                   /\ UNCHANGED pool
              ELSE /\ tasks' = [tasks EXCEPT ![i].pc = "awaiting", ![i].request = built.req,
                                   ![i].sent = signed.req]
                   /\ pool' = pool \cup {[task |-> i, request |-> signed.req]}
    /\ UNCHANGED <<call, pc, result, prev, now, clockLog, pre>>
    /\ UNCHANGED restVars

\* the session answers one of the requests it holds: the coroutine that awaits it
\* gets a connection failure, a timeout or a response
PoolAnswers(i) ==
    /\ \E entry \in pool :
        /\ entry.task = i
        /\ pool' = pool \ {entry}
    /\ \E answer \in {ClientConnectionError, TimeoutError} \cup
                      { HttpResponse(status, <<>>, body) :
                            status \in {200}, body \in TaskBodies(call.exchange) } :
           tasks' = [tasks EXCEPT ![i].pc = "answered", ![i].transport = answer]
    /\ UNCHANGED <<dicts, reqs, call, pc, result, prev, now, clockLog, pre>>
    /\ UNCHANGED restVars

\* the i-th coroutine resumes in _send_request with what the session gave it
TaskResume(i) ==
    /\ tasks[i].pc = "answered"
    /\ LET t == tasks[i]
           handled == IF t.transport.kind = "response"
                      THEN HandleResponse(call.exchange, t.sent, t.transport)
                      ELSE NoOutcome
           sent_outcome == IF t.transport.kind = "response" THEN handled
                           ELSE Raise(NetworkError(t.sent, t.transport.kind))
       IN  tasks' = [tasks EXCEPT ![i].pc = "done", ![i].classified = handled,
                        ![i].outcome = MethodOutcome(call.exchange, t.endpoint, sent_outcome)]
    /\ UNCHANGED <<dicts, reqs, call, pc, result, prev, now, clockLog, pre, pool>>
    /\ UNCHANGED restVars

ConcNext ==
    \/ \E i \in 1..MaxInFlight : TaskCall(i)
    \/ \E i \in 1..MaxInFlight : PoolAnswers(i)
    \/ \E i \in 1..MaxInFlight : TaskResume(i)

ConcSpec == ConcInit /\ [][ConcNext]_vars

\* the values a sent request carries in its params, headers and form data
Carried(a) ==
    LET v == ReqValue(dicts, reqs, a)
    IN  {v.params[k][2] : k \in 1..Len(v.params)} \cup
        {v.headers[k][2] : k \in 1..Len(v.headers)} \cup
        {v.data.items[k][2] : k \in 1..Len(v.data.items)}

\* the outcome the i-th call has when it is computed from its own request and
\* its own answer alone
OwnOutcome(i) ==
    LET t == tasks[i]
    IN  MethodOutcome(call.exchange, t.endpoint,
            IF t.transport.kind = "response"
            THEN HandleResponse(call.exchange, t.sent, t.transport)
            ELSE Raise(NetworkError(t.sent, t.transport.kind)))

\* C24: when several private calls with different credentials are in flight
\* on one credential-less adapter, interleaved at the network round trip, the
\* request of each call is the signer's output for its own descriptor and its
\* own credentials: it carries its own api key, carries no other caller's api
\* key, and shares no object with another call's request. The result or error
\* of each call is the one derived from its own request and its own response.
C24_Isolation ==
    \A i \in 1..Len(tasks) :
        LET t == tasks[i]
        IN  /\ t.sent # 0 =>
                LET own == SignRequest(call.exchange, dicts, reqs, t.request,
                                       TaskCredentialChoice(i), None, now)
                IN  /\ ~own.raised
                    /\ ReqValue(dicts, reqs, t.sent) = ReqValue(own.dicts, own.reqs, own.req)
                    /\ TaskCredentialChoice(i).api_key \in Carried(t.sent)
                    /\ \A j \in 1..Len(tasks) : j # i =>
                            /\ TaskCredentialChoice(j).api_key \notin Carried(t.sent)
                            /\ t.sent # tasks[j].sent
                            /\ t.sent # tasks[j].request
                            /\ tasks[j].sent # 0 =>
                                    /\ reqs[t.sent].params # reqs[tasks[j].sent].params
                                    /\ reqs[t.sent].headers # reqs[tasks[j].sent].headers
            /\ t.pc = "done" =>
                /\ t.outcome = OwnOutcome(i)
                /\ t.outcome.status = "raised" /\ t.outcome.error.request # 0 =>
                        t.outcome.error.request = t.sent

\* the second call was signed and sent first and still awaits its answer,
\* while the first call, sent after it, has been answered and has failed
C24_Witness ==
    /\ Len(tasks) >= 2
    /\ tasks[2].pc = "awaiting" /\ tasks[2].sent # 0
    /\ tasks[2].sent < tasks[1].sent
    /\ tasks[1].pc = "done" /\ tasks[1].outcome.status = "raised"
    /\ tasks[1].outcome.error.request = tasks[1].sent

-----------------------------------------------------------------------------
(* Bound adapters                                                          *)

\* the request the method of the credential-less adapter puts on the wire when
\* it is called with the arguments of the call and the given credentials
CredentialLessRequest(credentials) ==
    LET built == NewRequest(<<>>, <<>>,
                            EndpointRequest(call.exchange, call.endpoint, call.symbol,
                                            call.order))
        signed == SignRequest(call.exchange, built.dicts, built.reqs, built.req,
                              credentials, None, now)
    IN  IF Private(call.endpoint)
        THEN ReqValue(signed.dicts, signed.reqs, signed.req)
        ELSE ReqValue(built.dicts, built.reqs, built.req)

\* the result or error the credential-less method ends with for the answer of
\* the transport
CredentialLessOutcome ==
    IF sent = 0 THEN Raise([NoError EXCEPT !.type = "TypeError"])
    ELSE IF transport.kind = "response"
    THEN MethodOutcome(call.exchange, call.endpoint,
                       HandleResponse(call.exchange, sent, transport))
    ELSE Raise(NetworkError(sent, transport.kind))

\* C25: a method of a bound adapter (BinanceREST, BybitREST, FTXREST) puts
\* the same request on the wire and ends with the same result or error as the
\* method of the credential-less adapter called with the same arguments and
\* the credentials given at construction; an invalid combination of order
\* arguments is refused by both; the stored credentials are the ones given
\* at construction after any sequence of calls.
C25_BoundEquivalence ==
    adapter.bound =>
        /\ adapter.credentials = Credentials("1tr", "API_SECRET", NoneStr)
        /\ sent # 0 =>
                ReqValue(dicts, reqs, sent) = CredentialLessRequest(adapter.credentials)
        /\ rpc = "done" =>
                /\ outcome = CredentialLessOutcome
                /\ sent = 0 <=> /\ call.exchange = "binance" /\ call.endpoint = "new_order"
                                /\ ~BinanceIsValidParams(call.order)

\* the second private call on a bound adapter has returned its payload
C25_Witness ==
    /\ adapter.bound /\ adapter.calls = 2
    /\ Private(call.endpoint)
    /\ rpc = "done" /\ outcome.status = "returned"
    /\ "1tr" \in Carried(sent)

-----------------------------------------------------------------------------
(* Argument checking of Binance new_order                                  *)

Given(o, names) == \A n \in names : o[n].given
Absent(o, names) == \A n \in names : ~o[n].given

\* the combinations of arguments each order type is accepted with
AcceptedCombination(o) ==
    \/ /\ o.order_type = "MARKET"
       /\ o.quantity.given # o.quote_order_qty.given
       /\ Absent(o, {"price", "stop_price", "iceberg_qty", "time_in_force"})
    \/ /\ o.order_type = "LIMIT"
       /\ Given(o, {"price", "quantity", "time_in_force"})
       /\ Absent(o, {"quote_order_qty", "stop_price"})
    \/ /\ o.order_type \in {"STOP_LOSS", "TAKE_PROFIT"}
       /\ Given(o, {"quantity", "stop_price"})
       /\ Absent(o, {"price", "iceberg_qty", "quote_order_qty", "time_in_force"})
    \/ /\ o.order_type \in {"STOP_LOSS_LIMIT", "TAKE_PROFIT_LIMIT"}
       /\ Given(o, {"quantity", "price", "stop_price", "time_in_force"})
       /\ Absent(o, {"quote_order_qty"})
    \/ /\ o.order_type = "LIMIT_MAKER"
       /\ Given(o, {"quantity", "price"})
       /\ Absent(o, {"stop_price", "time_in_force", "quote_order_qty", "iceberg_qty"})

\* the orders that differ from o at most in new_client_order_id,
\* new_order_response_type and recv_window
SameButUnchecked(o) ==
    { [o EXCEPT !.new_client_order_id = id, !.new_order_response_type = resp,
                !.recv_window = window] :
        id \in Optional("sdf"), resp \in Optional("RESULT"),
        window \in { None, Some(5000) } }

BinanceNewOrderCalled ==
    call.exchange = "binance" /\ call.endpoint = "new_order" /\ rpc # "start"

\* C26: new_order of Binance is accepted (its request is signed and sent)
\* exactly when the arguments are one of the combinations listed for the order
\* type; every other combination raises TypeError with nothing built, signed
\* or sent and the clock not read; new_client_order_id, new_order_response_type
\* and recv_window never affect acceptance.
C26_ArgumentChecking ==
    BinanceNewOrderCalled =>
        /\ sent # 0 <=> AcceptedCombination(call.order)
        /\ ~AcceptedCombination(call.order) =>
                /\ rpc = "done"
                /\ outcome = Raise([NoError EXCEPT !.type = "TypeError"])
                /\ wire = <<>> /\ clockLog = <<>> /\ transport = NoTransport
                /\ dicts = <<>> /\ reqs = <<>>
        /\ \A o \in SameButUnchecked(call.order) :
                BinanceIsValidParams(o) = BinanceIsValidParams(call.order)

\* a MARKET order with both quantity and quote_order_qty has been refused
C26_Witness ==
    /\ BinanceNewOrderCalled
    /\ call.order.order_type = "MARKET"
    /\ call.order.quantity.given /\ call.order.quote_order_qty.given
    /\ Absent(call.order, {"price", "stop_price", "iceberg_qty", "time_in_force"})
    /\ outcome.status = "raised" /\ outcome.error.type = "TypeError"

-----------------------------------------------------------------------------
(* Frame of the Binance signer                                             *)

\* what the signer returns for the same params, headers, credentials and
\* timestamp when the request has neither data nor json
BinanceSignedWithoutBody ==
    LET ref == BinanceSignRequest(<<InParams, InHeaders>>,
                                  <<Request(In.method, In.base_url, In.path, 1, 2,
                                            [kind |-> "none", ref |-> 0, val |-> ""], 0)>>,
                                  1, call.credentials, Some(Ts), now)
    IN  ref.dicts[ref.reqs[ref.req].params]

\* C27: the Request the Binance signer returns has the method, base_url,
\* path, data and json of its input, for every HTTP method; its params, the
\* signature among them, are the ones the signer returns when the input has
\* neither data nor json; its headers are the input headers with X-MBX-APIKEY
\* set to the credentials' api_key, every other header kept with its value and
\* no key twice.
C27_BinanceFrame ==
    SignedBy("binance") =>
        LET headers == dicts[Out.headers]
            before == ReqValue(pre.dicts, pre.reqs, call.request)
            after == ReqValue(dicts, reqs, result.req)
        IN  /\ Out.method = In.method /\ Out.base_url = In.base_url /\ Out.path = In.path
            /\ Out.data = In.data /\ Out.json = In.json
            /\ after.data = before.data /\ after.json = before.json
            /\ dicts[Out.params] = BinanceSignedWithoutBody
            /\ HasKey(dicts[Out.params], "signature")
            /\ KeySet(headers) = KeySet(InHeaders) \cup {"X-MBX-APIKEY"}
            /\ Len(headers) = Cardinality(KeySet(headers))
            /\ Get(headers, "X-MBX-APIKEY") = call.credentials.api_key
            /\ \A k \in KeySet(InHeaders) \ {"X-MBX-APIKEY"} :
                    Get(headers, k) = Get(InHeaders, k)

\* a POST with form data, a json body and caller headers, among them a stale
\* key header, has been signed
C27_Witness ==
    /\ SignedBy("binance")
    /\ In.method = "POST"
    /\ In.data.kind = "map" /\ In.json # 0
    /\ HasKey(InHeaders, "X-MBX-APIKEY") /\ HasKey(InHeaders, "Accept")
    /\ Get(InHeaders, "X-MBX-APIKEY") # call.credentials.api_key

-----------------------------------------------------------------------------
(* Contents of the signed parameter set of Bybit                           *)

\* the set the signature is computed over: the signed set as it was before
\* sign got its final value
BybitSetBeforeSign ==
    IF HasKey(BybitCallerFields, "sign")
    THEN DictSet(BybitSignedSet, "sign", Get(BybitCallerFields, "sign"))
    ELSE SelectSeq(BybitSignedSet, LAMBDA e : e[1] # "sign")

\* C28: in the signed parameter set of Bybit api_key is the credentials'
\* api_key, timestamp is the signing timestamp as a string and sign is the
\* signature computed over the set as it was before sign was assigned, also
\* when the caller's fields already hold entries of these names; no key
\* appears twice; the headers are the input headers, with no key header
\* added.
C28_BybitSignedSet ==
    SignedBy("bybit") =>
        /\ {"api_key", "timestamp", "sign"} \subseteq KeySet(BybitSignedSet)
        /\ Len(BybitSignedSet) = Cardinality(KeySet(BybitSignedSet))
        /\ Get(BybitSignedSet, "api_key") = call.credentials.api_key
        /\ Get(BybitSignedSet, "timestamp") = Str(Ts)
        /\ Get(BybitSignedSet, "sign") =
                HmacSha256Hex(call.credentials.api_secret, Urlencode(BybitSetBeforeSign))
        /\ Out.headers = In.headers
        /\ dicts[Out.headers] = InHeaders
        /\ dicts[Out.headers] = pre.dicts[In.headers]

\* form data that already names timestamp and sign has been signed
C28_Witness ==
    /\ SignedBy("bybit")
    /\ In.method # "GET"
    /\ HasKey(BybitCallerFields, "sign") /\ HasKey(BybitCallerFields, "timestamp")
    /\ Get(BybitCallerFields, "timestamp") # Str(Ts)
    /\ Get(BybitCallerFields, "sign") # Get(BybitSignedSet, "sign")

-----------------------------------------------------------------------------
(* The request attached to the error of a private call                     *)

\* a private call has ended with an exchange error or a network error
PrivateCallFailed ==
    /\ rpc = "done"
    /\ Private(call.endpoint)
    /\ outcome.status = "raised"
    /\ \/ IsSubclass(outcome.error.type, "ExchangeError")
       \/ IsSubclass(outcome.error.type, "RESTNetworkError")

\* every string a Request holds: its method, url and path, and the keys and
\* values of its params, headers, form data and json
RequestStrings(a) ==
    LET v == ReqValue(dicts, reqs, a)
        all == v.params \o v.headers \o v.data.items \o v.json.items
    IN  {v.method, v.base_url, v.path, v.data.val} \cup
        {all[k][1] : k \in 1..Len(all)} \cup {all[k][2] : k \in 1..Len(all)}

\* the header names and values and the field names of the response attached
\* to an error
ResponseStrings(response) ==
    {response.headers[k][1] : k \in 1..Len(response.headers)} \cup
    {response.headers[k][2] : k \in 1..Len(response.headers)} \cup
    {response.body.items[k][1] : k \in 1..Len(response.body.items)}

\* C29: the request attached to an exchange error or a network error of a
\* private call is the signed Request that was handed to the transport, not
\* the Request the method built: for Binance its params hold the signature
\* and its headers the api key, for Bybit its params (GET) or form data (POST)
\* hold the signature and the api key, while the built Request holds neither;
\* the api_secret is no string of that request or of the message of the error,
\* and the response of the error holds what the exchange answered, nothing else.
C29_ErrorCarriesSignedRequest ==
    PrivateCallFailed =>
        LET e == outcome.error
            req == ReqValue(dicts, reqs, e.request)
            built == ReqValue(dicts, reqs, call.request)
            secret == call.credentials.api_secret
            key == call.credentials.api_key
        IN  /\ e.request = sent
            /\ wire = <<e.request>>
            /\ e.request # call.request
            /\ call.exchange = "binance" =>
                    /\ HasKey(req.params, "signature")
                    /\ HasKey(req.headers, "X-MBX-APIKEY")
                    /\ Get(req.headers, "X-MBX-APIKEY") = key
                    /\ ~HasKey(built.params, "signature")
                    /\ ~HasKey(built.headers, "X-MBX-APIKEY")
            /\ call.exchange = "bybit" =>
                    LET set == IF req.method = "GET" THEN req.params ELSE req.data.items
                        unsigned == IF req.method = "GET" THEN built.params
                                    ELSE built.data.items
                    IN  /\ HasKey(set, "sign")
                        /\ HasKey(set, "api_key")
                        /\ Get(set, "api_key") = key
                        /\ ~HasKey(unsigned, "sign")
                        /\ ~HasKey(unsigned, "api_key")
            /\ secret \notin RequestStrings(e.request)
            /\ secret \notin ResponseStrings(e.response)
            /\ e.response.given => e.response.body = transport.body
            /\ secret # e.msg /\ secret # e.key /\ secret # e.type

\* new_order of Binance has ended with an exchange error
C29_Witness ==
    /\ PrivateCallFailed
    /\ call.exchange = "binance" /\ call.endpoint = "new_order"
    /\ IsSubclass(outcome.error.type, "BinanceError")
    /\ outcome.error.request = sent
    /\ HasKey(dicts[reqs[sent].params], "signature")

-----------------------------------------------------------------------------
(* Classification and the HTTP status                                      *)

\* an outcome without the status its response envelope records
WithoutStatus(o) == [o EXCEPT !.error.response.status = 0]

\* the body decodes as a success of the exchange
DecodedAsSuccess ==
    CASE call.exchange = "binance" -> Body.kind = "list" \/ (Body.kind = "object" /\ ~Has("code"))
      [] call.exchange = "bybit" -> Has("ret_code") /\ BodyField("ret_code") = 0 /\ Has("result")
      [] call.exchange = "ftx" -> Has("success") /\ BodyField("success") /\ Has("result")

\* C30: the classification of a response depends on its decoded body and
\* never on its status: the classifier ends the same way at every status,
\* the recorded status aside; a Binance list or code-less object, a Bybit body
\* with ret_code 0 and an FTX body with success true return their payload at
\* every status, a failure body raises the same error at every status, and
\* the status is recorded in the response attached to the error and nowhere
\* else.
C30_StatusNeverClassifies ==
    (rpc = "done" /\ transport.kind = "response") =>
        /\ \A status \in Statuses :
                WithoutStatus(HandleResponse(call.exchange, sent,
                                             [transport EXCEPT !.status = status]))
                    = WithoutStatus(classified)
        /\ DecodedAsSuccess => classified.status = "returned"
        /\ DecodedAsFailure => classified.status = "raised"
        /\ classified.error.response.given =>
                classified.error.response.status = transport.status
        /\ ~classified.error.response.given => classified.error.response.status = 0

\* a success body came with status 503 and was returned
C30_Witness ==
    /\ rpc = "done" /\ transport.kind = "response"
    /\ transport.status = 503
    /\ DecodedAsSuccess
    /\ outcome.status = "returned"

====
